---- MODULE Spec2Model ----
(***************************************************************************)
(* Batch file-processing pipeline of AIImageRenamer: the job tracker       *)
(* (lib/jobs), the record store (lib/storage, image.service), the scan,    *)
(* analyze and rename routes, and filename collision resolution.           *)
(*                                                                         *)
(* File names are sequences of tokens ("sun", "_", "1", ".jpg"); string    *)
(* concatenation in the source is sequence concatenation here.  A          *)
(* project has one folder, so a path is identified with the file name in   *)
(* that folder.  A scan request is one step; each iteration of the batch   *)
(* rename loop is one step, so other requests take effect between items.   *)
(***************************************************************************)
EXTENDS Integers, Sequences, FiniteSets, TLC

VARIABLES
    inMemoryJobs,      \* lib/jobs: Map<jobId, Job>
    nextJobId,         \* number of job ids generated so far
    disk,              \* the project's folder: file name -> content hash
    blob,              \* bucket objects under projects/{project}/images/: name -> content hash
    inMemoryImages,    \* lib/storage: Map<imageId, ImageData>
    project,           \* the project's aggregate counters
    run,               \* the batch rename request in progress (locals of POST)
    storageConfigured, \* isStorageConfigured()
    rc,                \* inputs and result of one collision resolution
    db,                \* getDb() returns a Firestore handle
    firestoreImages,   \* projects/{projectId}/images/{imageId} documents
    firestoreTaxonomies, \* the documents of the taxonomies collection, in creation order
    inMemoryTaxonomies,  \* taxonomy.service: Map<key, TaxonomyItem>
    calls,             \* getOrCreateTaxonomy calls in flight: locals and position
    cleaned,           \* input and result of one generateCleanName call
    returned,          \* what the last call of the job tracker returned
    storageRename,     \* the renameImageInStorage call in flight: locals and position
    firestoreJobs,     \* jobs/{jobId} documents
    inflight,          \* Firestore requests on job documents awaiting their answer
    singleRename       \* the single-image rename request in flight (locals of POST)

\* the state of the services a pipeline run does not touch
extraVars == <<returned, storageRename, firestoreJobs, inflight, singleRename>>

serviceVars == <<db, firestoreImages, firestoreTaxonomies, inMemoryTaxonomies, calls,
                 cleaned, extraVars>>

vars == <<inMemoryJobs, nextJobId, disk, blob, inMemoryImages, project, run,
          storageConfigured, rc, db, firestoreImages, firestoreTaxonomies,
          inMemoryTaxonomies, calls, cleaned,
          returned, storageRename, firestoreJobs, inflight, singleRename>>

NULL == "null"

\* ------------------------------------------------------------------ bounds
MaxScanJobs == 2
MaxRenameJobs == 1
MaxItems == 2
MaxErrors == 2
MaxFiles == 2

\* ------------------------------------------------------------- job tracker
Now == "t"

NaN == -1
Infinity == -2

JobTypes == {"scan", "analyze", "rename", "cleanup"}
TerminalStatuses == {"completed", "failed", "cancelled"}

\* Math.round(x) for x = 100 * p / t, p >= 0, t > 0: floor(x + 1/2)
MathRound100(p, t) ==
    IF t = 0 THEN (IF p = 0 THEN NaN ELSE Infinity)
    ELSE (200 * p + t) \div (2 * t)

createJob(type, totalItems) ==
    [ type           |-> type,
      status         |-> "pending",
      progress       |-> 0,
      totalItems     |-> totalItems,
      processedItems |-> 0,
      successCount   |-> 0,
      errorCount     |-> 0,
      startedAt      |-> NULL,
      completedAt    |-> NULL,
      targets        |-> << >>,
      errors         |-> << >> ]

startJob(J, jobId) ==
    IF jobId \notin DOMAIN J THEN J
    ELSE [J EXCEPT ![jobId].status = "running", ![jobId].startedAt = Now]

TargetIndex(targets, name) ==
    IF \E k \in 1..Len(targets) : targets[k].name = name
    THEN CHOOSE k \in 1..Len(targets) :
            /\ targets[k].name = name
            /\ \A m \in 1..(k - 1) : targets[m].name # name
    ELSE 0

\* Object.assign(existingTarget, currentTarget), then completedAt
MergeTarget(t, ct) ==
    LET merged == [f \in DOMAIN t |-> IF f \in DOMAIN ct THEN ct[f] ELSE t[f]]
    IN  IF ct.status \in {"completed", "failed"}
        THEN [merged EXCEPT !.completedAt = Now]
        ELSE merged

\* { ...currentTarget, startedAt: now }
NewTarget(ct) ==
    [ name        |-> ct.name,
      status      |-> ct.status,
      error       |-> IF "error" \in DOMAIN ct THEN ct.error ELSE NULL,
      startedAt   |-> Now,
      completedAt |-> NULL ]

UpsertTargetAlwaysPushing(targets, ct) == Append(targets, NewTarget(ct))

UpsertTarget(targets, ct) ==
    LET k == TargetIndex(targets, ct.name)
    IN  IF k > 0 THEN [targets EXCEPT ![k] = MergeTarget(@, ct)]
        ELSE Append(targets, NewTarget(ct))

\* update is a record holding only the fields the caller supplied
updateJobProgress(J, jobId, update) ==
    IF jobId \notin DOMAIN J THEN J
    ELSE
      LET job == J[jobId]
          j1 == IF "processedItems" \in DOMAIN update
                THEN [job EXCEPT !.processedItems = update.processedItems,
                                 !.progress = MathRound100(update.processedItems, job.totalItems)]
                ELSE job
          j2 == IF "successCount" \in DOMAIN update
                THEN [j1 EXCEPT !.successCount = update.successCount] ELSE j1
          j3 == IF "errorCount" \in DOMAIN update
                THEN [j2 EXCEPT !.errorCount = update.errorCount] ELSE j2
          j4 == IF "currentTarget" \in DOMAIN update
                THEN LET ct == update.currentTarget
                     IN  [j3 EXCEPT
                            !.targets = UpsertTarget(@, ct),
                            !.errors  = IF "error" \in DOMAIN ct /\ ct.error # NULL
                                        THEN Append(@, <<ct.name, ct.error>>)
                                        ELSE @]
                ELSE j3
      IN  [J EXCEPT ![jobId] = j4]

completeJobCreatingMissing(J, jobId, status) ==
    IF jobId \notin DOMAIN J
    THEN [k \in DOMAIN J \cup {jobId} |->
            IF k = jobId THEN [createJob("scan", 0) EXCEPT !.status = status] ELSE J[k]]
    ELSE [J EXCEPT ![jobId].status = status,
                   ![jobId].completedAt = Now,
                   ![jobId].progress = 100]

completeJob(J, jobId, status) ==
    IF jobId \notin DOMAIN J THEN J
    ELSE [J EXCEPT ![jobId].status = status,
                   ![jobId].completedAt = Now,
                   ![jobId].progress = 100]

\* DELETE /api/jobs/[jobId]
DeleteJob(J, jobId, remove) ==
    IF jobId \notin DOMAIN J THEN J
    ELSE
      LET cancelled == IF J[jobId].status \in {"pending", "running"}
                       THEN [J EXCEPT ![jobId].status = "cancelled",
                                      ![jobId].completedAt = Now]
                       ELSE J
      IN  IF remove THEN [k \in DOMAIN cancelled \ {jobId} |-> cancelled[k]]
          ELSE cancelled

AddJob(J, jobId, job) == [k \in DOMAIN J \cup {jobId} |-> IF k = jobId THEN job ELSE J[k]]

\* ------------------------------------------------------------------ names
Ext == ".jpg"
CounterStr == <<"1", "2", "3", "4", "5", "6", "7", "8", "9">>

\* `${newName}_${counter}`
WithCounter(newName, counter) == newName \o <<"_", CounterStr[counter]>>

\* the probe loop of both rename routes, entered with finalName and counter
RECURSIVE FindUnique(_, _, _, _, _)
FindUniqueFirstRetryOnly(dir, newName, ext, finalName, counter) ==
    IF (finalName \o <<ext>>) \in dir THEN WithCounter(newName, counter) ELSE finalName

FindUnique(dir, newName, ext, finalName, counter) ==
    IF (finalName \o <<ext>>) \in dir
    THEN FindUnique(dir, newName, ext, WithCounter(newName, counter), counter + 1)
    ELSE finalName

ResolveCollisionWithoutProbe(dir, newName, ext) == newName

\* let finalName = newName; let counter = 1; while (true) { fs.access ... }
ResolveCollision(dir, newName, ext) == FindUnique(dir, newName, ext, newName, 1)

\* ------------------------------------------------------- maps and sequences
Put(f, k, v) == [x \in DOMAIN f \cup {k} |-> IF x = k THEN v ELSE f[x]]
Remove(f, k) == [x \in DOMAIN f \ {k} |-> f[x]]
Range(s) == { s[k] : k \in DOMAIN s }
Front(s) == SubSeq(s, 1, Len(s) - 1)
MapSeq(s, Op(_)) == [k \in 1..Len(s) |-> Op(s[k])]
Perms(S) == { s \in [1..Cardinality(S) -> S] : Range(s) = S }
\* Op applied to the value of v, which is computed once
Let(v, Op(_)) == CHOOSE r \in { Op(x) : x \in {v} } : TRUE

\* ------------------------------------------------------ lib/helpers: names
Digits == Range(CounterStr)
DigitRun == Digits \cup {"d8"}          \* "d8": a block of eight digits
Lower(t) == CASE t = "IMG" -> "img" [] t = "Sun" -> "sun" [] OTHER -> t
TokenChars(t) ==
    CASE t = "d8" -> 8 [] t = "date" -> 10
      [] t \in {"sun", "cat", "img", "IMG", "Sun", "dsc", "pic"} -> 3
      [] t = ".jpg" -> 4 [] t = ".png" -> 4
      [] t = "photo" -> 5 [] t = "other" -> 5 [] t = "image" -> 5
      [] t = "imgi" -> 4 [] t = "sunset" -> 6 [] t = "screenshot" -> 10 [] OTHER -> 1

RECURSIVE Chars(_)
Chars(s) == IF s = << >> THEN 0 ELSE TokenChars(Head(s)) + Chars(Tail(s))

\* s.slice(0, n), cutting at token boundaries
RECURSIVE Slice(_, _)
Slice(s, n) ==
    IF s = << >> \/ TokenChars(Head(s)) > n THEN << >>
    ELSE <<Head(s)>> \o Slice(Tail(s), n - TokenChars(Head(s)))

extname(name) == IF name # << >> /\ name[Len(name)] \in {".jpg", ".png"}
                 THEN name[Len(name)] ELSE ""
basename(name) == IF extname(name) = "" THEN name ELSE Front(name)

SkipOpt(s, t) == IF s # << >> /\ Head(s) = t THEN Tail(s) ELSE s
RECURSIVE SkipDigits(_)
SkipDigits(s) == IF s # << >> /\ Head(s) \in DigitRun THEN SkipDigits(Tail(s)) ELSE s

\* name.replace(/^word_?\d+_?/i, '')
StripWordPrefix(words, name) ==
    IF name # << >> /\ Lower(Head(name)) \in words
    THEN LET a == SkipOpt(Tail(name), "_")
             b == SkipDigits(a)
         IN  IF b = a THEN name ELSE SkipOpt(b, "_")
    ELSE name

\* PREFIX_PATTERNS[k], applied as name.replace(pattern, '')
PatternCount == 9
ApplyPattern(k, name) ==
    CASE k = 1 -> StripWordPrefix({"img", "imgi"}, name)
      [] k = 2 -> StripWordPrefix({"img"}, name)
      [] k = 3 -> StripWordPrefix({"dsc"}, name)
      [] k = 4 -> StripWordPrefix({"photo"}, name)
      [] k = 5 -> StripWordPrefix({"image"}, name)
      [] k = 6 -> StripWordPrefix({"pic"}, name)
      [] k = 7 -> StripWordPrefix({"screenshot"}, name)
      [] k = 8 -> IF name # << >> /\ Head(name) = "date"
                  THEN SkipOpt(Tail(name), "_") ELSE name
      [] OTHER -> IF name # << >> /\ Head(name) = "d8"
                  THEN SkipOpt(SkipDigits(SkipOpt(Tail(name), "_")), "_") ELSE name

\* .toLowerCase().replace(/[^a-z0-9_]/g, '_')
CleanToken(t) == IF Lower(t) \in {" ", ".", "-", ":"} THEN "_" ELSE Lower(t)
\* name.replace(/[<>:"/\\|?*]/g, '_')
FileToken(t) == IF t \in {"<", ">", ":", "/", "|", "?", "*"} THEN "_" ELSE t
\* originalName.replace(/[^a-zA-Z0-9._-]/g, '_')
IdToken(t) == IF t \in {" ", ":", "<", ">", "/", "|", "?", "*"} THEN "_" ELSE t

sanitizeFileName(name) == MapSeq(name, FileToken)

\* for (const pattern of PREFIX_PATTERNS) cleanName = nameWithoutExt.replace(pattern, '')
RECURSIVE CleanLoop(_, _, _)
CleanLoop(k, nameWithoutExt, cleanName) ==
    IF k > PatternCount THEN cleanName
    ELSE CleanLoop(k + 1, nameWithoutExt, ApplyPattern(k, nameWithoutExt))

\* generateCleanName(originalName, null); << >> stands for null
generateCleanName(originalName) ==
    LET nameWithoutExt == basename(originalName)
        cleanName == CleanLoop(1, nameWithoutExt, originalName)
    IN  IF Chars(cleanName) < 3 \/ cleanName = nameWithoutExt THEN << >>
        ELSE Slice(MapSeq(cleanName, CleanToken), 50)

\* .replace(/_+/g, '_')
RECURSIVE CollapseUnderscores(_)
CollapseUnderscores(s) ==
    IF Len(s) < 2 THEN s
    ELSE IF s[1] = "_" /\ s[2] = "_" THEN CollapseUnderscores(Tail(s))
    ELSE <<Head(s)>> \o CollapseUnderscores(Tail(s))

\* analyze route: normalisation of analysisResult.suggestedName
NormalizeSuggested(raw) ==
    Slice(CollapseUnderscores(MapSeq(IF raw = << >> THEN <<"image">> ELSE raw, CleanToken)), 40)

\* ------------------------------------------------------ lib/storage: records
Prefix8(hash) == hash[1]
generateImageId(hash, originalName) ==
    <<Prefix8(hash), "_">> \o Slice(MapSeq(originalName, IdToken), 50)

\* the records of the store in some listing order (Map iteration / query order)
Listings(images) == { MapSeq(o, LAMBDA id : images[id]) : o \in Perms(DOMAIN images) }

NoName == << >>

\* scan route: the record built for a file before the merge
FreshImage(file, hash, storageUrl) ==
    [ originalName     |-> file,
      currentName      |-> file,
      path             |-> file,
      hash             |-> hash,
      extension        |-> Lower(extname(file)),
      status           |-> "scanned",
      suggestedName    |-> NoName,
      patternCleanName |-> generateCleanName(file),
      isDuplicate      |-> FALSE,
      duplicateOf      |-> << >>,
      renamed          |-> FALSE,
      renamedAt        |-> NULL,
      analyzedAt       |-> NULL,
      storageUrl       |-> storageUrl,
      metadata         |-> [width |-> "w", title |-> NULL, analysisError |-> NULL] ]

\* a ?? b on names and lists, whose null is << >>
Coalesce(a, b) == IF a # << >> THEN a ELSE b

FirstWhere(list, Test(_)) ==
    IF \E k \in 1..Len(list) : Test(list[k])
    THEN CHOOSE k \in 1..Len(list) : Test(list[k]) /\ \A m \in 1..(k - 1) : ~Test(list[m])
    ELSE 0

\* existingList.find(path) || existingList.find(name) || existingList[0]
PickExisting(existingList, file) ==
    LET byPath == FirstWhere(existingList, LAMBDA img : img.path = file)
        byName == FirstWhere(existingList,
                             LAMBDA img : img.currentName = file \/ img.originalName = file)
    IN  IF byPath > 0 THEN existingList[byPath]
        ELSE IF byName > 0 THEN existingList[byName]
        ELSE existingList[1]

\* { ...existing.metadata, ...imageData.metadata }: a field is absent when NULL
SpreadMetadata(under, over) ==
    [f \in DOMAIN under |-> IF over[f] # NULL THEN over[f] ELSE under[f]]

MergeExistingLosingSuggestedName(imageData, existing) ==
    [imageData EXCEPT
        !.patternCleanName = Coalesce(existing.patternCleanName, imageData.patternCleanName),
        !.status           = existing.status,
        !.analyzedAt       = IF existing.analyzedAt # NULL THEN existing.analyzedAt ELSE Now,
        !.renamed          = existing.renamed,
        !.renamedAt        = existing.renamedAt,
        !.isDuplicate      = existing.isDuplicate,
        !.duplicateOf      = Coalesce(existing.duplicateOf, imageData.duplicateOf),
        !.storageUrl       = Coalesce(existing.storageUrl, imageData.storageUrl),
        !.metadata         = SpreadMetadata(existing.metadata, imageData.metadata)]

\* scan route: copy the analysis and rename fields of the existing record
MergeExisting(imageData, existing) ==
    [imageData EXCEPT
        !.suggestedName    = Coalesce(existing.suggestedName, imageData.suggestedName),
        !.patternCleanName = Coalesce(existing.patternCleanName, imageData.patternCleanName),
        !.status           = existing.status,
        !.analyzedAt       = IF existing.analyzedAt # NULL THEN existing.analyzedAt ELSE Now,
        !.renamed          = existing.renamed,
        !.renamedAt        = existing.renamedAt,
        !.isDuplicate      = existing.isDuplicate,
        !.duplicateOf      = Coalesce(existing.duplicateOf, imageData.duplicateOf),
        !.storageUrl       = Coalesce(existing.storageUrl, imageData.storageUrl),
        !.metadata         = SpreadMetadata(existing.metadata, imageData.metadata)]

\* uploadImage(filePath, projectName, file, skipIfExists = true)
UploadImage(B, file, hash) == IF file \in DOMAIN B THEN B ELSE Put(B, file, hash)

\* scan route: the body of `for (const file of files)`; acc holds the locals
ScanFile(acc, jobId, file, existingList, useCloudStorage) ==
    LET J1 == updateJobProgress(acc.J, jobId,
                  [processedItems |-> acc.processedCount,
                   currentTarget  |-> [name |-> file, status |-> "running"]])
    IN  IF ~disk[file].readable
        THEN [acc EXCEPT
                !.J = Let(J1, LAMBDA J : updateJobProgress(J, jobId,
                          [errorCount    |-> J[jobId].errorCount + 1,
                           currentTarget |-> [name |-> file, status |-> "failed",
                                              error |-> "EACCES"]])),
                !.processedCount = @ + 1]
        ELSE
          LET hash == disk[file].hash
              fresh == FreshImage(file, hash, IF useCloudStorage THEN file ELSE NoName)
              sameHash == SelectSeq(existingList, LAMBDA img : img.hash = hash)
              imageData == IF sameHash # << >>
                           THEN MergeExisting(fresh, PickExisting(sameHash, file))
                           ELSE fresh
          IN  [acc EXCEPT
                !.J = updateJobProgress(J1, jobId,
                          [successCount  |-> Len(acc.images) + 1,
                           currentTarget |-> [name |-> file, status |-> "completed"]]),
                !.B = IF useCloudStorage THEN UploadImage(@, file, hash) ELSE @,
                !.images = Append(@, imageData),
                !.processedCount = @ + 1]

RECURSIVE ScanLoopStoppingAtError(_, _, _, _, _, _)
ScanLoopStoppingAtError(acc, jobId, files, k, existingList, useCloudStorage) ==
    IF k > Len(files) \/ (k > 1 /\ ~disk[files[k - 1]].readable) THEN acc
    ELSE Let(ScanFile(acc, jobId, files[k], existingList, useCloudStorage),
             LAMBDA a : ScanLoopStoppingAtError(a, jobId, files, k + 1, existingList,
                                                useCloudStorage))

RECURSIVE ScanLoop(_, _, _, _, _, _)
ScanLoop(acc, jobId, files, k, existingList, useCloudStorage) ==
    IF k > Len(files) THEN acc
    ELSE Let(ScanFile(acc, jobId, files[k], existingList, useCloudStorage),
             LAMBDA a : ScanLoop(a, jobId, files, k + 1, existingList, useCloudStorage))

\* scan route: "Mark duplicates"
MarkDuplicates(images) ==
    [k \in 1..Len(images) |->
        LET fileNames == MapSeq(SelectSeq(images, LAMBDA img : img.hash = images[k].hash),
                                LAMBDA img : img.originalName)
        IN  IF Len(fileNames) > 1
            THEN [images[k] EXCEPT
                    !.isDuplicate = TRUE,
                    !.duplicateOf = SelectSeq(fileNames, LAMBDA f : f # images[k].originalName)]
            ELSE images[k]]

\* image.service saveImages: inMemoryImages.set(generateImageId(...), ...) in order
RECURSIVE saveImages(_, _, _)
saveImages(store, images, k) ==
    IF k > Len(images) THEN store
    ELSE Let(Put(store, generateImageId(images[k].hash, images[k].originalName),
                 images[k]),
             LAMBDA st : saveImages(st, images, k + 1))

CountWhere(list, Test(_)) == Len(SelectSeq(list, Test))

\* ------------------------------------- inputs of collision resolution alone
RcBases == { <<"photo">>, <<"photo", "_", "1">> }
RcExts == { ".jpg", ".png" }
RcNames == { <<"photo", ".jpg">>, <<"photo", "_", "1", ".jpg">>,
             <<"photo", "_", "2", ".jpg">>, <<"photo", "_", "1", "_", "1", ".jpg">>,
             <<"photo", ".png">>, <<"other", ".jpg">> }

RcIdle == [dir |-> {}, newName |-> << >>, ext |-> Ext, finalName |-> << >>, done |-> FALSE]

\* ------------------------------------------------------ the modelled inputs
Hashes == { <<"0a1b2c3d", "x">>, <<"9f8e7d6c", "x">> }
FolderNames == { <<"sun", ".jpg">>, <<"cat", ".jpg">>, <<"d8", "_", "sun", ".jpg">> }
RawAiNames == { <<"sun">>, <<"Sun", " ", "1">> }
NewNames == { <<"sun", ":", "1">> }
AnalyzerFailure == <<"!">>
UnknownId == <<"00000000", "_", "gone", ".jpg">>

RunIdle == [pc |-> "idle", jobId |-> 0, targetIds |-> << >>, i |-> 0,
            successCount |-> 0, errorCount |-> 0,
            useAiSuggestion |-> FALSE, usePatternClean |-> FALSE, useStorage |-> FALSE]

\* ------------------------------------------------------------ rename routes
\* renameImageInStorage(projectName, oldFilename, newFilename): copy, then delete
renameImageInStorage(B, oldFilename, newFilename) ==
    IF oldFilename \notin DOMAIN B THEN B
    ELSE Remove(Put(B, newFilename, B[oldFilename]), oldFilename)

\* the part of both rename routes from "Find unique filename" to updateImage
\* for record img and candidate base newName; ok = FALSE when fs.rename throws
RenamePlan(img, newName, useStorage) ==
    LET mirrored == useStorage /\ img.storageUrl # NoName
        moved == mirrored /\ img.currentName \in DOMAIN blob
        Plan(newFullName) ==
          [ ok          |-> img.path \in DOMAIN disk,
            newFullName |-> newFullName,
            mirrored    |-> moved,
            disk        |-> IF img.path \in DOMAIN disk
                            THEN Put(Remove(disk, img.path), newFullName, disk[img.path])
                            ELSE disk,
            blob        |-> IF mirrored
                            THEN renameImageInStorage(blob, img.currentName, newFullName)
                            ELSE blob,
            image       |-> [img EXCEPT !.currentName = newFullName,
                                        !.path = newFullName,
                                        !.renamed = TRUE,
                                        !.renamedAt = Now,
                                        !.status = "renamed",
                                        !.storageUrl = IF moved THEN newFullName ELSE @] ]
    IN  Let(ResolveCollision(DOMAIN disk, newName, img.extension) \o <<img.extension>>, Plan)

RenamedStoreBeforeRename(images, imageId, plan) ==
    [images EXCEPT ![imageId] = plan.image]

\* rename-batch route: updateImage is reached only when fs.rename did not throw
RenamedStore(images, imageId, plan) ==
    IF plan.ok THEN [images EXCEPT ![imageId] = plan.image] ELSE images

\* rename-batch route: "Determine new name"
CandidateName(img, useAiSuggestion, usePatternClean) ==
    IF useAiSuggestion /\ img.suggestedName # NoName THEN img.suggestedName
    ELSE IF usePatternClean /\ img.patternCleanName # NoName THEN img.patternCleanName
    ELSE NoName

\* rename-batch route: the use-all-eligible selection over a listing
EligibleIds(listing, useAiSuggestion, usePatternClean) ==
    MapSeq(SelectSeq(listing, LAMBDA img :
                ~img.renamed /\ ( (useAiSuggestion /\ img.suggestedName # NoName)
                               \/ (usePatternClean /\ img.patternCleanName # NoName) )),
           LAMBDA img : generateImageId(img.hash, img.originalName))

IdLists(n) == UNION { [1..m -> DOMAIN inMemoryImages \cup {UnknownId}] : m \in 1..n }

\* no taxonomy, no cleaned name, the in-memory store in use
CleanedIdle == [name |-> << >>, result |-> << >>, done |-> FALSE]

NoReturn == [op |-> "none", jobId |-> 0, value |-> << >>]
StorageRenameIdle == [pc |-> "idle"]
InflightIdle == [write |-> << >>, read |-> << >>]
SingleRenameIdle == [pc |-> "idle"]

ExtrasIdle ==
    /\ returned = NoReturn
    /\ storageRename = StorageRenameIdle
    /\ firestoreJobs = << >>
    /\ inflight = InflightIdle
    /\ singleRename = SingleRenameIdle

ServicesIdle ==
    /\ ExtrasIdle
    /\ db = FALSE
    /\ firestoreImages = << >>
    /\ firestoreTaxonomies = << >>
    /\ inMemoryTaxonomies = << >>
    /\ calls = << >>
    /\ cleaned = CleanedIdle

\* ------------------------------------------------------------------ actions
\* the folder changes outside the application
AddFile(name, hash, readable) ==
    /\ name \notin DOMAIN disk
    /\ Cardinality(DOMAIN disk) < MaxFiles
    /\ disk' = Put(disk, name, [hash |-> hash, readable |-> readable])
    /\ UNCHANGED <<inMemoryJobs, nextJobId, blob, inMemoryImages, project, run,
                   storageConfigured, rc>>
    /\ UNCHANGED serviceVars

RemoveFile(name) ==
    /\ name \in DOMAIN disk
    /\ disk' = Remove(disk, name)
    /\ UNCHANGED <<inMemoryJobs, nextJobId, blob, inMemoryImages, project, run,
                   storageConfigured, rc>>
    /\ UNCHANGED serviceVars

\* scan route from createJob to completeJob: the store, bucket, counters and
\* job map it leaves for the listed files, prior records and job map J
ScanResult(files, existingList, J, jobId, B, useCloudStorage) ==
    LET J0 == startJob(AddJob(J, jobId, createJob("scan", Len(files))), jobId)
        Finish(acc) ==
            Let(MarkDuplicates(acc.images), LAMBDA images :
                [ images  |-> saveImages(<< >>, images, 1),
                  blob    |-> acc.B,
                  project |-> [imageCount    |-> Len(images),
                               analyzedCount |-> CountWhere(images,
                                                     LAMBDA img : img.suggestedName # NoName),
                               renamedCount  |-> CountWhere(images,
                                                     LAMBDA img : img.renamed)],
                  jobs    |-> completeJob(acc.J, jobId, "completed") ])
    IN  Let(ScanLoop([J |-> J0, B |-> B, images |-> << >>, processedCount |-> 0],
                     jobId, files, 1, existingList, useCloudStorage), Finish)

\* POST /api/projects/[projectId]/scan
Scan(files, existingList) ==
    /\ run.pc = "idle"
    /\ nextJobId < MaxScanJobs
    /\ \E r \in { ScanResult(files, existingList, inMemoryJobs, nextJobId + 1, blob,
                              storageConfigured) } :
           /\ nextJobId' = nextJobId + 1
           /\ inMemoryImages' = r.images
           /\ blob' = r.blob
           /\ project' = r.project
           /\ inMemoryJobs' = r.jobs
    /\ UNCHANGED <<disk, run, storageConfigured, rc>>
    /\ UNCHANGED serviceVars

\* analyze route: what one iteration does to the records, for imageId and
\* the analyzer's answer
AnalyzeItem(acc, imageId, answer) ==
    IF imageId \notin DOMAIN acc.images \/ acc.images[imageId].path \notin DOMAIN disk
    THEN [acc EXCEPT !.errorCount = acc.errorCount + 1]
    ELSE
      LET img == acc.images[imageId]
      IN  IF ~disk[img.path].readable \/ answer = AnalyzerFailure
          THEN [acc EXCEPT
                  !.images[imageId].status = "error",
                  !.images[imageId].metadata =
                      [width |-> NULL, title |-> NULL, analysisError |-> "error"],
                  !.errorCount = acc.errorCount + 1]
          ELSE [acc EXCEPT
                  !.images[imageId].status = "analyzed",
                  !.images[imageId].suggestedName = NormalizeSuggested(answer),
                  !.images[imageId].analyzedAt = Now,
                  !.images[imageId].metadata =
                      [img.metadata EXCEPT !.title = "title", !.analysisError = NULL],
                  !.successCount = acc.successCount + 1]

RECURSIVE AnalyzeLoop(_, _, _, _)
AnalyzeLoop(acc, imageIds, answers, k) ==
    IF k > Len(imageIds) THEN acc
    ELSE Let(AnalyzeItem(acc, imageIds[k], answers[k]),
             LAMBDA a : AnalyzeLoop(a, imageIds, answers, k + 1))

\* POST /api/projects/[projectId]/rename-batch, up to the loop
RenameBatchStart(targetIds, useAiSuggestion, usePatternClean) ==
    /\ run.pc = "idle"
    /\ nextJobId < MaxRenameJobs
    /\ targetIds # << >>
    /\ LET jobId == nextJobId + 1
       IN  /\ nextJobId' = jobId
           /\ inMemoryJobs' = startJob(AddJob(inMemoryJobs, jobId,
                                              createJob("rename", Len(targetIds))), jobId)
           /\ run' = [pc |-> "loop", jobId |-> jobId, targetIds |-> targetIds, i |-> 0,
                      successCount |-> 0, errorCount |-> 0,
                      useAiSuggestion |-> useAiSuggestion,
                      usePatternClean |-> usePatternClean,
                      useStorage |-> storageConfigured]
    /\ UNCHANGED <<disk, blob, inMemoryImages, project, storageConfigured, rc>>
    /\ UNCHANGED serviceVars

\* rename-batch route: one iteration of `for (let i = 0; i < targetIds.length; i++)`
RenameItem ==
    /\ run.pc = "loop"
    /\ run.i < Len(run.targetIds)
    /\ LET imageId == run.targetIds[run.i + 1]
           J1 == updateJobProgress(inMemoryJobs, run.jobId,
                     [processedItems |-> run.i,
                      successCount   |-> run.successCount,
                      errorCount     |-> run.errorCount,
                      currentTarget  |-> [name |-> imageId, status |-> "running"]])
           found == imageId \in DOMAIN inMemoryImages
           newName == IF found
                      THEN CandidateName(inMemoryImages[imageId], run.useAiSuggestion,
                                         run.usePatternClean)
                      ELSE NoName
       IN  IF ~found \/ newName = NoName
           THEN \* results.push({ success: false }); errorCount++; continue
                /\ inMemoryJobs' = J1
                /\ run' = [run EXCEPT !.i = @ + 1, !.errorCount = @ + 1]
                /\ UNCHANGED <<disk, blob, inMemoryImages>>
           ELSE \E plan \in { RenamePlan(inMemoryImages[imageId], newName,
                                             run.useStorage) } :
                    IF ~plan.ok
                    THEN \* fs.rename throws: the catch block
                         /\ inMemoryJobs' = updateJobProgress(J1, run.jobId,
                                [errorCount    |-> run.errorCount + 1,
                                 currentTarget |-> [name |-> imageId, status |-> "failed",
                                                    error |-> "ENOENT"]])
                         /\ run' = [run EXCEPT !.i = @ + 1, !.errorCount = @ + 1]
                         /\ inMemoryImages' = RenamedStore(inMemoryImages, imageId, plan)
                         /\ UNCHANGED <<disk, blob>>
                    ELSE /\ disk' = plan.disk
                         /\ blob' = plan.blob
                         /\ inMemoryImages' = RenamedStore(inMemoryImages, imageId, plan)
                         /\ inMemoryJobs' = updateJobProgress(J1, run.jobId,
                                [successCount  |-> run.successCount + 1,
                                 currentTarget |-> [name |-> imageId, status |-> "completed"]])
                         /\ run' = [run EXCEPT !.i = @ + 1, !.successCount = @ + 1]
    /\ UNCHANGED <<nextJobId, project, storageConfigured, rc>>
    /\ UNCHANGED serviceVars

\* project.service updateProjectStats(projectId, { renamedCount })
updateProjectStatsRenamed(p, renamedCount) == [p EXCEPT !.renamedCount = @ + renamedCount]

\* rename-batch route: after the loop
RenameFinish ==
    /\ run.pc = "loop"
    /\ run.i = Len(run.targetIds)
    /\ project' = IF run.successCount > 0
                  THEN updateProjectStatsRenamed(project, run.successCount)
                  ELSE project
    /\ inMemoryJobs' = completeJob(inMemoryJobs, run.jobId,
                           IF run.errorCount = Len(run.targetIds) THEN "failed"
                           ELSE "completed")
    /\ run' = RunIdle
    /\ UNCHANGED <<nextJobId, disk, blob, inMemoryImages, storageConfigured, rc>>
    /\ UNCHANGED serviceVars

\* POST /api/projects/[projectId]/images/[imageId]/rename
RenameSingle(imageId, newName) ==
    /\ imageId \in DOMAIN inMemoryImages
    /\ \E img \in { inMemoryImages[imageId] } :
        \E plan \in { RenamePlan(img, sanitizeFileName(newName), storageConfigured) } :
           /\ plan.ok
           /\ disk' = plan.disk
           /\ blob' = plan.blob
           /\ inMemoryImages' = [inMemoryImages EXCEPT ![imageId] = plan.image]
           /\ project' = IF ~img.renamed THEN updateProjectStatsRenamed(project, 1)
                         ELSE project
    /\ UNCHANGED <<inMemoryJobs, nextJobId, run, storageConfigured, rc>>
    /\ UNCHANGED serviceVars

\* DELETE /api/jobs/[jobId]?remove=
CancelJob(jobId, remove) ==
    /\ jobId \in DOMAIN inMemoryJobs
    /\ inMemoryJobs' = DeleteJob(inMemoryJobs, jobId, remove)
    /\ inMemoryJobs' # inMemoryJobs
    /\ UNCHANGED <<nextJobId, disk, blob, inMemoryImages, project, run,
                   storageConfigured, rc>>
    /\ UNCHANGED serviceVars

\* ------------------------------------------------- job tracker, called directly
TrackerJobIds == { 1 }
TargetNames == { "a.jpg" }
MaxCount == 1

WithField(S, name, Values) ==
    S \cup { [f \in DOMAIN u \cup {name} |-> IF f = name THEN v ELSE u[f]] : u \in S, v \in Values }

CurrentTargets ==
    { [name |-> n, status |-> st] : n \in TargetNames, st \in {"running", "completed"} }
    \cup { [name |-> n, status |-> "failed", error |-> "err"] : n \in TargetNames }

\* every combination of supplied and omitted fields of an update
Updates ==
    WithField(WithField(WithField(WithField({ << >> },
        "processedItems", 0..MaxItems), "successCount", 0..MaxCount),
        "errorCount", 0..MaxCount), "currentTarget", CurrentTargets) \ { << >> }

TCreateJob(jobId, type, totalItems) ==
    /\ jobId \notin DOMAIN inMemoryJobs
    /\ inMemoryJobs' = AddJob(inMemoryJobs, jobId, createJob(type, totalItems))
    /\ UNCHANGED <<nextJobId, disk, blob, inMemoryImages, project, run,
                   storageConfigured, rc>>
    /\ UNCHANGED serviceVars

TStartJob(jobId) ==
    /\ jobId \in DOMAIN inMemoryJobs
    /\ inMemoryJobs' = startJob(inMemoryJobs, jobId)
    /\ UNCHANGED <<nextJobId, disk, blob, inMemoryImages, project, run,
                   storageConfigured, rc>>
    /\ UNCHANGED serviceVars

TUpdateJobProgress(jobId, update) ==
    /\ jobId \in DOMAIN inMemoryJobs
    /\ Len(inMemoryJobs[jobId].errors) < MaxErrors
    /\ inMemoryJobs' = updateJobProgress(inMemoryJobs, jobId, update)
    /\ UNCHANGED <<nextJobId, disk, blob, inMemoryImages, project, run,
                   storageConfigured, rc>>
    /\ UNCHANGED serviceVars

TCompleteJob(jobId, status) ==
    /\ jobId \in DOMAIN inMemoryJobs
    /\ inMemoryJobs' = completeJob(inMemoryJobs, jobId, status)
    /\ UNCHANGED <<nextJobId, disk, blob, inMemoryImages, project, run,
                   storageConfigured, rc>>
    /\ UNCHANGED serviceVars

InitTracker ==
    /\ inMemoryJobs = << >>
    /\ nextJobId = 0
    /\ disk = << >>
    /\ blob = << >>
    /\ inMemoryImages = << >>
    /\ project = [imageCount |-> 0, analyzedCount |-> 0, renamedCount |-> 0]
    /\ run = RunIdle
    /\ storageConfigured = FALSE
    /\ rc = RcIdle
    /\ ServicesIdle

NextTracker ==
    \/ \E jobId \in TrackerJobIds, totalItems \in 0..MaxItems :
          TCreateJob(jobId, "rename", totalItems)
    \/ \E jobId \in TrackerJobIds : TStartJob(jobId)
    \/ \E jobId \in TrackerJobIds, update \in Updates : TUpdateJobProgress(jobId, update)
    \/ \E jobId \in TrackerJobIds, status \in {"completed", "failed"} :
          TCompleteJob(jobId, status)
    \/ \E jobId \in TrackerJobIds, remove \in BOOLEAN : CancelJob(jobId, remove)

SpecTracker == InitTracker /\ [][NextTracker]_vars

\* --------------------------------- job tracker, called with any job id
CalledJobIds == { 1, 2 }

\* `return job` / `return null`: << >> stands for null
JobOrNull(J, jobId) == IF jobId \in DOMAIN J THEN <<J[jobId]>> ELSE << >>

CallStartJob(jobId) ==
    /\ inMemoryJobs' = startJob(inMemoryJobs, jobId)
    /\ returned' = [op |-> "startJob", jobId |-> jobId,
                    value |-> JobOrNull(inMemoryJobs', jobId)]
    /\ UNCHANGED <<nextJobId, disk, blob, inMemoryImages, project, run,
                   storageConfigured, rc, db, firestoreImages, firestoreTaxonomies,
                   inMemoryTaxonomies, calls, cleaned, storageRename, firestoreJobs,
                   inflight, singleRename>>

CallUpdateJobProgress(jobId, update) ==
    /\ jobId \in DOMAIN inMemoryJobs => Len(inMemoryJobs[jobId].errors) < MaxErrors
    /\ inMemoryJobs' = updateJobProgress(inMemoryJobs, jobId, update)
    /\ returned' = [op |-> "updateJobProgress", jobId |-> jobId,
                    value |-> JobOrNull(inMemoryJobs', jobId)]
    /\ UNCHANGED <<nextJobId, disk, blob, inMemoryImages, project, run,
                   storageConfigured, rc, db, firestoreImages, firestoreTaxonomies,
                   inMemoryTaxonomies, calls, cleaned, storageRename, firestoreJobs,
                   inflight, singleRename>>

CallCompleteJob(jobId, status) ==
    /\ inMemoryJobs' = completeJob(inMemoryJobs, jobId, status)
    /\ returned' = [op |-> "completeJob", jobId |-> jobId,
                    value |-> JobOrNull(inMemoryJobs', jobId)]
    /\ UNCHANGED <<nextJobId, disk, blob, inMemoryImages, project, run,
                   storageConfigured, rc, db, firestoreImages, firestoreTaxonomies,
                   inMemoryTaxonomies, calls, cleaned, storageRename, firestoreJobs,
                   inflight, singleRename>>

NextCalls ==
    \/ \E jobId \in TrackerJobIds, totalItems \in 1..MaxItems :
          TCreateJob(jobId, "scan", totalItems)
    \/ \E jobId \in CalledJobIds : CallStartJob(jobId)
    \/ \E jobId \in CalledJobIds, update \in Updates : CallUpdateJobProgress(jobId, update)
    \/ \E jobId \in CalledJobIds, status \in {"completed", "failed"} :
          CallCompleteJob(jobId, status)

SpecCalls == InitTracker /\ [][NextCalls]_vars

\* ------------------------------------------ job tracker, reports on two targets
ReportedNames == { "a.jpg", "b.jpg" }

\* progress updates that name a target, with and without processedItems
TargetReports ==
    LET cts == { [name |-> n, status |-> st] :
                    n \in ReportedNames, st \in {"running", "completed"} }
               \cup { [name |-> n, status |-> "failed", error |-> "err"] :
                         n \in ReportedNames }
    IN  WithField({ [currentTarget |-> ct] : ct \in cts }, "processedItems", 0..MaxItems)

NextTargets ==
    \/ \E jobId \in TrackerJobIds : TCreateJob(jobId, "rename", MaxItems)
    \/ \E jobId \in TrackerJobIds : TStartJob(jobId)
    \/ \E jobId \in TrackerJobIds, update \in TargetReports :
          TUpdateJobProgress(jobId, update)
    \/ \E jobId \in TrackerJobIds, status \in {"completed", "failed"} :
          TCompleteJob(jobId, status)

SpecTargets == InitTracker /\ [][NextTargets]_vars

\* ------------------------------------------------ collision resolution alone
InitResolve ==
    /\ inMemoryJobs = << >>
    /\ nextJobId = 0
    /\ disk = << >>
    /\ blob = << >>
    /\ inMemoryImages = << >>
    /\ project = [imageCount |-> 0, analyzedCount |-> 0, renamedCount |-> 0]
    /\ run = RunIdle
    /\ storageConfigured = FALSE
    /\ rc \in [dir : SUBSET RcNames, newName : RcBases, ext : RcExts,
               finalName : {<< >>}, done : {FALSE}]
    /\ ServicesIdle

Resolve ==
    /\ ~rc.done
    /\ rc' = [rc EXCEPT !.finalName = ResolveCollision(rc.dir, rc.newName, rc.ext),
                        !.done = TRUE]
    /\ UNCHANGED <<inMemoryJobs, nextJobId, disk, blob, inMemoryImages, project, run,
                   storageConfigured>>
    /\ UNCHANGED serviceVars

NextResolve == Resolve

SpecResolve == InitResolve /\ [][NextResolve]_vars

\* ------------------------------------------- a scanned and analyzed project
Folders(Contents) ==
    UNION { [S -> Contents] :
            S \in { T \in SUBSET FolderNames : Cardinality(T) \in 1..MaxFiles } }

SeqOf(S) == CHOOSE q \in Perms(S) : TRUE

\* the folder has been scanned and some of its records analyzed; the job
\* history has been cleared since
InitProjectRecords(folders, Configured) ==
    /\ disk \in folders
    /\ storageConfigured \in Configured
    /\ \E files \in Perms(DOMAIN disk) :
         \E r \in { ScanResult(files, << >>, << >>, 1, << >>, storageConfigured) } :
             /\ blob = r.blob
             /\ \E S \in SUBSET DOMAIN r.images :
                  \E answers \in [1..Cardinality(S) -> RawAiNames \cup {AnalyzerFailure}] :
                     \E acc \in { AnalyzeLoop([images |-> r.images, successCount |-> 0,
                                               errorCount |-> 0], SeqOf(S), answers, 1) } :
                         /\ inMemoryImages = acc.images
                         /\ project = [r.project EXCEPT
                                          !.analyzedCount = @ + acc.successCount]
    /\ inMemoryJobs = << >>
    /\ nextJobId = 0
    /\ run = RunIdle
    /\ rc = RcIdle

InitProject(folders, Configured) ==
    /\ InitProjectRecords(folders, Configured)
    /\ ServicesIdle

\* ------------------------------------------------------- rescanning a folder
InitScan == InitProject(Folders([hash : Hashes, readable : {TRUE}]), {FALSE})

NextScan ==
    \/ \E name \in DOMAIN disk : RemoveFile(name)
    \/ \E files \in Perms(DOMAIN disk), existingList \in Listings(inMemoryImages) :
          Scan(files, existingList)
    \/ \E imageId \in DOMAIN inMemoryImages, newName \in NewNames :
          RenameSingle(imageId, newName)

SpecScan == InitScan /\ [][NextScan]_vars

\* ------------------------------------- scanning a folder with unreadable files
\* chmod: a file becomes unreadable, or readable again
SetReadable(name, readable) ==
    /\ name \in DOMAIN disk
    /\ disk[name].readable # readable
    /\ disk' = [disk EXCEPT ![name].readable = readable]
    /\ UNCHANGED <<inMemoryJobs, nextJobId, blob, inMemoryImages, project, run,
                   storageConfigured, rc>>
    /\ UNCHANGED serviceVars

InitScanErrors == InitProject(Folders([hash : Hashes, readable : BOOLEAN]), {FALSE})

NextScanErrors ==
    \/ \E name \in DOMAIN disk, readable \in BOOLEAN : SetReadable(name, readable)
    \/ \E files \in Perms(DOMAIN disk), existingList \in Listings(inMemoryImages) :
          Scan(files, existingList)

SpecScanErrors == InitScanErrors /\ [][NextScanErrors]_vars

\* ---------------------------------------------------------- renaming a folder
OneHash == CHOOSE h \in Hashes : TRUE

InitRename == InitProject(Folders([hash : {OneHash}, readable : {TRUE}]), BOOLEAN)

RenameFlags == { <<TRUE, FALSE>>, <<FALSE, TRUE>>, <<TRUE, TRUE>> }

NextRename ==
    \/ \E name \in FolderNames : AddFile(name, OneHash, TRUE)
    \/ \E name \in DOMAIN disk : RemoveFile(name)
    \/ \E imageIds \in IdLists(MaxItems), flags \in RenameFlags :
          RenameBatchStart(imageIds, flags[1], flags[2])
    \/ \E listing \in Listings(inMemoryImages), flags \in RenameFlags :
          RenameBatchStart(EligibleIds(listing, flags[1], flags[2]), flags[1], flags[2])
    \/ RenameItem
    \/ RenameFinish
    \/ \E jobId \in DOMAIN inMemoryJobs, remove \in BOOLEAN : CancelJob(jobId, remove)

SpecRename == InitRename /\ [][NextRename]_vars

\* ------------------------------------- image.service, two projects, both stores
ProjectIds == { "P", "Q" }
StoreFiles == { <<h, n>> : h \in Hashes, n \in { <<"sun", ".jpg">>, <<"cat", ".jpg">> } }
NotFound == [projectId |-> NULL]

\* { ...imageData, id: imageId, projectId }
FullImageData(projectId, file) ==
    [ projectId |-> projectId, hash |-> file[1], originalName |-> file[2],
      status |-> "scanned" ]

\* the documents of projects/{projectId}/images
ProjectDocs(F, projectId) == IF projectId \in DOMAIN F THEN F[projectId] ELSE << >>

\* image.service getImage(projectId, imageId)
getImage(projectId, imageId) ==
    IF db
    THEN IF imageId \in DOMAIN ProjectDocs(firestoreImages, projectId)
         THEN firestoreImages[projectId][imageId] ELSE NotFound
    ELSE IF imageId \in DOMAIN inMemoryImages THEN inMemoryImages[imageId] ELSE NotFound

\* lib/storage getProjectImages / the project's collection: the records stored
\* for projectId, by id
getProjectImages(projectId) ==
    IF db THEN ProjectDocs(firestoreImages, projectId)
    ELSE [ id \in { i \in DOMAIN inMemoryImages : inMemoryImages[i].projectId = projectId }
             |-> inMemoryImages[id] ]

\* image.service saveImages(projectId, images): both branches, for images in order
RECURSIVE SaveAll(_, _, _, _)
SaveAll(store, projectId, files, k) ==
    IF k > Len(files) THEN store
    ELSE SaveAll(Put(store, generateImageId(files[k][1], files[k][2]),
                     FullImageData(projectId, files[k])),
                 projectId, files, k + 1)

\* image.service saveImages(projectId, images)
StoreSave(projectId, files) ==
    /\ files # << >>
    /\ IF db
       THEN /\ firestoreImages' = Put(firestoreImages, projectId,
                                      SaveAll(ProjectDocs(firestoreImages, projectId),
                                              projectId, files, 1))
            /\ UNCHANGED inMemoryImages
       ELSE /\ inMemoryImages' = SaveAll(inMemoryImages, projectId, files, 1)
            /\ UNCHANGED firestoreImages
    /\ UNCHANGED <<inMemoryJobs, nextJobId, disk, blob, project, run, storageConfigured,
                   rc, db, firestoreTaxonomies, inMemoryTaxonomies, calls, cleaned>>
    /\ UNCHANGED extraVars

\* image.service updateImage(projectId, imageId, { status: 'analyzed' })
StoreUpdate(projectId, imageId) ==
    /\ IF db
       THEN /\ imageId \in DOMAIN ProjectDocs(firestoreImages, projectId)
            /\ firestoreImages' = [firestoreImages EXCEPT
                                     ![projectId][imageId].status = "analyzed"]
            /\ UNCHANGED inMemoryImages
       ELSE /\ imageId \in DOMAIN inMemoryImages
            /\ inMemoryImages' = [inMemoryImages EXCEPT ![imageId].status = "analyzed"]
            /\ UNCHANGED firestoreImages
    /\ UNCHANGED <<inMemoryJobs, nextJobId, disk, blob, project, run, storageConfigured,
                   rc, db, firestoreTaxonomies, inMemoryTaxonomies, calls, cleaned>>
    /\ UNCHANGED extraVars

\* image.service deleteImage(projectId, imageId, ...): the store entry
StoreDelete(projectId, imageId) ==
    /\ IF db
       THEN /\ imageId \in DOMAIN ProjectDocs(firestoreImages, projectId)
            /\ firestoreImages' = [firestoreImages EXCEPT
                                     ![projectId] = Remove(@, imageId)]
            /\ UNCHANGED inMemoryImages
       ELSE /\ imageId \in DOMAIN inMemoryImages
            /\ inMemoryImages' = Remove(inMemoryImages, imageId)
            /\ UNCHANGED firestoreImages
    /\ UNCHANGED <<inMemoryJobs, nextJobId, disk, blob, project, run, storageConfigured,
                   rc, db, firestoreTaxonomies, inMemoryTaxonomies, calls, cleaned>>
    /\ UNCHANGED extraVars

\* image.service clearProjectImages(projectId)
StoreClear(projectId) ==
    /\ getProjectImages(projectId) # << >>
    /\ IF db
       THEN /\ firestoreImages' = Put(firestoreImages, projectId, << >>)
            /\ UNCHANGED inMemoryImages
       ELSE /\ inMemoryImages' =
                 [ id \in { i \in DOMAIN inMemoryImages :
                               inMemoryImages[i].projectId # projectId }
                     |-> inMemoryImages[id] ]
            /\ UNCHANGED firestoreImages
    /\ UNCHANGED <<inMemoryJobs, nextJobId, disk, blob, project, run, storageConfigured,
                   rc, db, firestoreTaxonomies, inMemoryTaxonomies, calls, cleaned>>
    /\ UNCHANGED extraVars

StoreIds == { generateImageId(f[1], f[2]) : f \in StoreFiles }

InitStore ==
    /\ inMemoryJobs = << >>
    /\ nextJobId = 0
    /\ disk = << >>
    /\ blob = << >>
    /\ inMemoryImages = << >>
    /\ project = [imageCount |-> 0, analyzedCount |-> 0, renamedCount |-> 0]
    /\ run = RunIdle
    /\ storageConfigured = FALSE
    /\ rc = RcIdle
    /\ db \in BOOLEAN
    /\ firestoreImages = << >>
    /\ firestoreTaxonomies = << >>
    /\ inMemoryTaxonomies = << >>
    /\ calls = << >>
    /\ cleaned = CleanedIdle
    /\ ExtrasIdle

NextStore ==
    \/ \E projectId \in ProjectIds, S \in SUBSET StoreFiles : StoreSave(projectId, SeqOf(S))
    \/ \E projectId \in ProjectIds, imageId \in StoreIds : StoreUpdate(projectId, imageId)
    \/ \E projectId \in ProjectIds, imageId \in StoreIds : StoreDelete(projectId, imageId)
    \/ \E projectId \in ProjectIds : StoreClear(projectId)

SpecStore == InitStore /\ [][NextStore]_vars

\* ------------------------------------- scanning, analyzing and renaming
MaxAnalyzeJobs == 1

\* analyze route: the progress reports of the iteration that took the
\* counters from acc to next
AnalyzeReports(J, jobId, acc, next, imageId, i) ==
    LET J1 == updateJobProgress(J, jobId,
                  [processedItems |-> i,
                   successCount   |-> acc.successCount,
                   errorCount     |-> acc.errorCount,
                   currentTarget  |-> [name |-> imageId, status |-> "running"]])
    IN  IF next.successCount > acc.successCount
        THEN updateJobProgress(J1, jobId,
                 [successCount  |-> next.successCount,
                  currentTarget |-> [name |-> imageId, status |-> "completed"]])
        ELSE updateJobProgress(J1, jobId,
                 [errorCount    |-> next.errorCount,
                  currentTarget |-> [name |-> imageId, status |-> "failed",
                                     error |-> "error"]])

\* analyze route: `for (let i = 0; i < imageIds.length; i++)` from item k on
RECURSIVE AnalyzeRun(_, _, _, _, _)
AnalyzeRun(st, jobId, imageIds, answers, k) ==
    IF k > Len(imageIds) THEN st
    ELSE Let(AnalyzeItem(st.acc, imageIds[k], answers[k]), LAMBDA next :
             AnalyzeRun([acc |-> next,
                         J   |-> AnalyzeReports(st.J, jobId, st.acc, next, imageIds[k],
                                                k - 1)],
                        jobId, imageIds, answers, k + 1))

\* analyze route: the ids chosen when the request names none
UnanalyzedIds(listing) ==
    MapSeq(SelectSeq(listing, LAMBDA img :
                img.status = "scanned" \/ img.suggestedName = NoName),
           LAMBDA img : generateImageId(img.hash, img.originalName))

\* project.service updateProjectStats(projectId, { analyzedCount })
updateProjectStatsAnalyzed(p, analyzedCount) ==
    [p EXCEPT !.analyzedCount = @ + analyzedCount]

\* POST /api/projects/[projectId]/analyze
Analyze(imageIds, answers) ==
    /\ run.pc = "idle"
    /\ nextJobId < MaxAnalyzeJobs
    /\ imageIds # << >>
    /\ LET jobId == nextJobId + 1
           J0 == startJob(AddJob(inMemoryJobs, jobId,
                                 createJob("analyze", Len(imageIds))), jobId)
       IN  \E st \in { AnalyzeRun([acc |-> [images |-> inMemoryImages,
                                             successCount |-> 0, errorCount |-> 0],
                                    J |-> J0], jobId, imageIds, answers, 1) } :
              /\ nextJobId' = jobId
              /\ inMemoryImages' = st.acc.images
              /\ project' = IF st.acc.successCount > 0
                            THEN updateProjectStatsAnalyzed(project, st.acc.successCount)
                            ELSE project
              /\ inMemoryJobs' = completeJob(st.J, jobId,
                                     IF st.acc.errorCount = Len(imageIds) THEN "failed"
                                     ELSE "completed")
    /\ UNCHANGED <<disk, blob, run, storageConfigured, rc>>
    /\ UNCHANGED serviceVars

Answers(n) == [1..n -> RawAiNames \cup {AnalyzerFailure}]

InitStatus == InitProject(Folders([hash : {OneHash}, readable : {TRUE}]), {FALSE})

NextStatus ==
    \/ \E files \in Perms(DOMAIN disk), existingList \in Listings(inMemoryImages) :
          Scan(files, existingList)
    \/ \E imageIds \in IdLists(MaxItems) : \E answers \in Answers(Len(imageIds)) :
          Analyze(imageIds, answers)
    \/ \E listing \in Listings(inMemoryImages) :
          \E answers \in Answers(Len(UnanalyzedIds(listing))) :
             Analyze(UnanalyzedIds(listing), answers)
    \/ \E imageId \in DOMAIN inMemoryImages, newName \in NewNames :
          RenameSingle(imageId, newName)

SpecStatus == InitStatus /\ [][NextStatus]_vars

\* ------------------------------------- renameImageInStorage, step by step
BlobNames == { <<"sun", ".jpg">>, <<"sun", "_", "1", ".jpg">>, <<"cat", ".jpg">> }

StorageStepsDeleteFirst == <<"exists", "delete", "copy", "makePublic">>

\* the awaited bucket requests of renameImageInStorage, in program order
StorageSteps == <<"exists", "copy", "makePublic", "delete">>

\* the request that follows step pc, "done" after the last
StepAfter(pc) ==
    LET k == CHOOSE m \in 1..Len(StorageSteps) : StorageSteps[m] = pc
    IN  IF k = Len(StorageSteps) THEN "done" ELSE StorageSteps[k + 1]

StorageUnchanged ==
    UNCHANGED <<inMemoryJobs, nextJobId, disk, inMemoryImages, project, run,
                storageConfigured, rc, db, firestoreImages, firestoreTaxonomies,
                inMemoryTaxonomies, calls, cleaned, returned, firestoreJobs, inflight,
                singleRename>>

\* renameImageInStorage(projectName, oldFilename, newFilename) up to its first
\* await; the routes pass a new name that is free in the folder, which the
\* current name is not
StorageRenameStart(oldFilename, newFilename) ==
    /\ storageRename.pc \in {"idle", "done"}
    /\ storageConfigured
    /\ oldFilename # newFilename
    /\ storageRename' = [pc |-> Head(StorageSteps), oldFilename |-> oldFilename,
                         newFilename |-> newFilename, existed |-> FALSE,
                         threw |-> "none", success |-> FALSE]
    /\ UNCHANGED blob
    /\ StorageUnchanged

\* a request rejects: the catch block returns { success: false }
StorageThrows ==
    /\ storageRename.pc \in Range(StorageSteps)
    /\ storageRename' = [storageRename EXCEPT !.pc = "done", !.threw = storageRename.pc]
    /\ UNCHANGED blob
    /\ StorageUnchanged

\* `const [exists] = await oldFile.exists()`
StorageExists ==
    /\ storageRename.pc = "exists"
    /\ IF storageRename.oldFilename \in DOMAIN blob
       THEN storageRename' = [storageRename EXCEPT !.pc = StepAfter("exists"),
                                                   !.existed = TRUE]
       ELSE storageRename' = [storageRename EXCEPT !.pc = "done", !.success = TRUE]
    /\ UNCHANGED blob
    /\ StorageUnchanged

\* `await oldFile.copy(newFile)`: rejects when the source is gone
StorageCopy ==
    /\ storageRename.pc = "copy"
    /\ IF storageRename.oldFilename \in DOMAIN blob
       THEN /\ blob' = Put(blob, storageRename.newFilename,
                           blob[storageRename.oldFilename])
            /\ storageRename' = [storageRename EXCEPT !.pc = StepAfter("copy")]
       ELSE /\ UNCHANGED blob
            /\ storageRename' = [storageRename EXCEPT !.pc = "done", !.threw = "copy"]
    /\ StorageUnchanged

\* `await newFile.makePublic()`: rejects when the object is not there
StorageMakePublic ==
    /\ storageRename.pc = "makePublic"
    /\ IF storageRename.newFilename \in DOMAIN blob
       THEN storageRename' = [storageRename EXCEPT !.pc = StepAfter("makePublic")]
       ELSE storageRename' = [storageRename EXCEPT !.pc = "done",
                                                   !.threw = "makePublic"]
    /\ UNCHANGED blob
    /\ StorageUnchanged

\* `await oldFile.delete()`
StorageDelete ==
    /\ storageRename.pc = "delete"
    /\ blob' = Remove(blob, storageRename.oldFilename)
    /\ storageRename' = [storageRename EXCEPT
                            !.pc = StepAfter("delete"),
                            !.success = (StepAfter("delete") = "done")]
    /\ StorageUnchanged

InitStorage ==
    /\ inMemoryJobs = << >>
    /\ nextJobId = 0
    /\ disk = << >>
    /\ \E S \in SUBSET BlobNames : blob \in [S -> Hashes]
    /\ inMemoryImages = << >>
    /\ project = [imageCount |-> 0, analyzedCount |-> 0, renamedCount |-> 0]
    /\ run = RunIdle
    /\ storageConfigured = TRUE
    /\ rc = RcIdle
    /\ ServicesIdle

NextStorage ==
    \/ \E oldFilename, newFilename \in BlobNames :
          StorageRenameStart(oldFilename, newFilename)
    \/ StorageThrows
    \/ StorageExists
    \/ StorageCopy
    \/ StorageMakePublic
    \/ StorageDelete

SpecStorage == InitStorage /\ [][NextStorage]_vars

\* ------------------------------------------------------- taxonomy.service
MaxCalls == 3

TaxonomyTypes == { "tag", "color" }
LabelNames == { "sky", " sky", "Sky", " " }

\* name.trim()
Trim(name) == CASE name = " sky" -> "sky" [] name = " " -> "" [] OTHER -> name
\* name.toLowerCase()
LowerLabel(name) == IF name = "Sky" THEN "sky" ELSE name
\* `${type}:${name.toLowerCase()}`
makeKey(type, name) == <<type, LowerLabel(name)>>

NoItem == << >>

\* the documents a where(type).where(name).limit(1) query can return
Matching(docs, type, name) ==
    { k \in 1..Len(docs) : docs[k].type = type /\ docs[k].name = name }

\* getOrCreateTaxonomy(type, name) up to its first await; without Firestore
\* the call runs to its end
TaxonomyCall(c, type, name) ==
    /\ c \notin DOMAIN calls
    /\ LET trimmed == Trim(name)
           key == makeKey(type, trimmed)
       IN  IF trimmed = ""
           THEN /\ calls' = Put(calls, c, [type |-> type, name |-> trimmed,
                                           pc |-> "done", result |-> NoItem])
                /\ UNCHANGED inMemoryTaxonomies
           ELSE IF db
           THEN /\ calls' = Put(calls, c, [type |-> type, name |-> trimmed,
                                           pc |-> "query", result |-> NoItem])
                /\ UNCHANGED inMemoryTaxonomies
           ELSE /\ inMemoryTaxonomies' =
                      IF key \in DOMAIN inMemoryTaxonomies THEN inMemoryTaxonomies
                      ELSE Put(inMemoryTaxonomies, key,
                               [id |-> key, type |-> type, name |-> trimmed])
                /\ calls' = Put(calls, c, [type |-> type, name |-> trimmed,
                                           pc |-> "done", result |-> <<key>>])
    /\ UNCHANGED <<inMemoryJobs, nextJobId, disk, blob, inMemoryImages, project, run,
                   storageConfigured, rc, db, firestoreImages, firestoreTaxonomies,
                   cleaned>>
    /\ UNCHANGED extraVars

\* the query resolves: `if (!existingSnap.empty) return ...`
TaxonomyQuery(c) ==
    /\ c \in DOMAIN calls
    /\ calls[c].pc = "query"
    /\ LET found == Matching(firestoreTaxonomies, calls[c].type, calls[c].name)
       IN  IF found = {}
           THEN calls' = [calls EXCEPT ![c].pc = "add"]
           ELSE \E k \in found :
                   calls' = [calls EXCEPT ![c].pc = "done",
                                          ![c].result = <<firestoreTaxonomies[k].id>>]
    /\ UNCHANGED <<inMemoryJobs, nextJobId, disk, blob, inMemoryImages, project, run,
                   storageConfigured, rc, db, firestoreImages, firestoreTaxonomies,
                   inMemoryTaxonomies, cleaned>>
    /\ UNCHANGED extraVars

\* `const docRef = await col.add(data)`: a document with a new id
TaxonomyAdd(c) ==
    /\ c \in DOMAIN calls
    /\ calls[c].pc = "add"
    /\ LET id == Len(firestoreTaxonomies) + 1
       IN  /\ firestoreTaxonomies' = Append(firestoreTaxonomies,
                  [id |-> id, type |-> calls[c].type, name |-> calls[c].name])
           /\ calls' = [calls EXCEPT ![c].pc = "done", ![c].result = <<id>>]
    /\ UNCHANGED <<inMemoryJobs, nextJobId, disk, blob, inMemoryImages, project, run,
                   storageConfigured, rc, db, firestoreImages, inMemoryTaxonomies,
                   cleaned>>
    /\ UNCHANGED extraVars

\* a Firestore request rejects: the catch block returns null
TaxonomyError(c) ==
    /\ c \in DOMAIN calls
    /\ calls[c].pc \in {"query", "add"}
    /\ calls' = [calls EXCEPT ![c].pc = "done"]
    /\ UNCHANGED <<inMemoryJobs, nextJobId, disk, blob, inMemoryImages, project, run,
                   storageConfigured, rc, db, firestoreImages, firestoreTaxonomies,
                   inMemoryTaxonomies, cleaned>>
    /\ UNCHANGED extraVars

InitTaxonomy ==
    /\ inMemoryJobs = << >>
    /\ nextJobId = 0
    /\ disk = << >>
    /\ blob = << >>
    /\ inMemoryImages = << >>
    /\ project = [imageCount |-> 0, analyzedCount |-> 0, renamedCount |-> 0]
    /\ run = RunIdle
    /\ storageConfigured = FALSE
    /\ rc = RcIdle
    /\ db \in BOOLEAN
    /\ firestoreImages = << >>
    /\ firestoreTaxonomies = << >>
    /\ inMemoryTaxonomies = << >>
    /\ calls = << >>
    /\ cleaned = CleanedIdle
    /\ ExtrasIdle

NextTaxonomy ==
    \/ \E type \in TaxonomyTypes, name \in LabelNames :
          Len(calls) < MaxCalls /\ TaxonomyCall(Len(calls) + 1, type, name)
    \/ \E c \in DOMAIN calls : TaxonomyQuery(c)
    \/ \E c \in DOMAIN calls : TaxonomyAdd(c)
    \/ \E c \in DOMAIN calls : TaxonomyError(c)

SpecTaxonomy == InitTaxonomy /\ [][NextTaxonomy]_vars

\* ------------------------------------------------- pattern cleaning alone
CleanPrefixes ==
    { << >>, <<"imgi", "_", "6", "5", "_">>, <<"IMG", "_", "1">>, <<"img", "_">>,
      <<"dsc", "1", "_">>, <<"photo", "_", "2", "_">>, <<"image", "3">>,
      <<"pic", "_", "4", "_">>, <<"screenshot", "_", "5", "_">>, <<"date", "_">>,
      <<"d8", "_">>, <<"d8", "_", "1", "_">> }
CleanBases == { <<"sunset">>, <<"Sun", " ", "1">>, <<"a">>, << >> }
CleanExts == { <<".jpg">>, <<".png">>, << >> }
CleanNames ==
    { prefix \o base \o ext : prefix \in CleanPrefixes, base \in CleanBases,
                              ext \in CleanExts } \ { << >> }

InitClean ==
    /\ inMemoryJobs = << >>
    /\ nextJobId = 0
    /\ disk = << >>
    /\ blob = << >>
    /\ inMemoryImages = << >>
    /\ project = [imageCount |-> 0, analyzedCount |-> 0, renamedCount |-> 0]
    /\ run = RunIdle
    /\ storageConfigured = FALSE
    /\ rc = RcIdle
    /\ db = FALSE
    /\ firestoreImages = << >>
    /\ firestoreTaxonomies = << >>
    /\ inMemoryTaxonomies = << >>
    /\ calls = << >>
    /\ \E name \in CleanNames : cleaned = [name |-> name, result |-> << >>, done |-> FALSE]
    /\ ExtrasIdle

\* generateCleanName(originalName, null)
Clean ==
    /\ ~cleaned.done
    /\ cleaned' = [cleaned EXCEPT !.result = generateCleanName(cleaned.name),
                                  !.done = TRUE]
    /\ UNCHANGED <<inMemoryJobs, nextJobId, disk, blob, inMemoryImages, project, run,
                   storageConfigured, rc, db, firestoreImages, firestoreTaxonomies,
                   inMemoryTaxonomies, calls>>
    /\ UNCHANGED extraVars

NextClean == Clean

SpecClean == InitClean /\ [][NextClean]_vars

\* ------------------------------------------ cleanup-duplicates route
MaxCleanupJobs == 1

\* the collation weight of a token's first character: punctuation sorts
\* before digits, digits before letters
CollationRank(t) ==
    CASE t = "_" -> 1
      [] t \in {".jpg", ".png"} -> 2
      [] t \in DigitRun -> 3
      [] t = "cat" -> 4
      [] t = "sun" -> 5
      [] OTHER -> 6

\* a.localeCompare(b) on the modelled names
RECURSIVE localeCompare(_, _)
localeCompare(a, b) ==
    IF a = << >> /\ b = << >> THEN 0
    ELSE IF a = << >> THEN 0 - 1
    ELSE IF b = << >> THEN 1
    ELSE IF CollationRank(Head(a)) < CollationRank(Head(b)) THEN 0 - 1
    ELSE IF CollationRank(Head(a)) > CollationRank(Head(b)) THEN 1
    ELSE localeCompare(Tail(a), Tail(b))

\* group.sort((a, b) => a.originalName.localeCompare(b.originalName)): the
\* sort is stable, an element goes behind those it does not precede
RECURSIVE InsertByName(_, _, _)
InsertByName(images, sorted, id) ==
    IF sorted = << >> THEN <<id>>
    ELSE IF localeCompare(images[id].originalName, images[Head(sorted)].originalName) < 0
         THEN <<id>> \o sorted
         ELSE <<Head(sorted)>> \o InsertByName(images, Tail(sorted), id)

RECURSIVE SortByOriginalName(_, _)
SortByOriginalName(images, group) ==
    IF group = << >> THEN << >>
    ELSE InsertByName(images, SortByOriginalName(images, Front(group)), group[Len(group)])

\* the keys of `groups` in insertion order: each hash where the listing
\* first shows it
RECURSIVE GroupKeys(_, _, _)
GroupKeys(images, ids, seen) ==
    IF ids = << >> THEN << >>
    ELSE IF images[Head(ids)].hash \in seen THEN GroupKeys(images, Tail(ids), seen)
    ELSE <<images[Head(ids)].hash>>
         \o GroupKeys(images, Tail(ids), seen \cup {images[Head(ids)].hash})

GroupOf(images, ids, hash) == SelectSeq(ids, LAMBDA id : images[id].hash = hash)

RECURSIVE Flatten(_)
Flatten(lists) == IF lists = << >> THEN << >> ELSE Head(lists) \o Flatten(Tail(lists))

\* the groups of more than one record, each sorted by originalName
SortedGroups(images, ids) ==
    LET keys == GroupKeys(images, ids, {})
        groups == [k \in 1..Len(keys) |->
                      SortByOriginalName(images, GroupOf(images, ids, keys[k]))]
    IN  SelectSeq(groups, LAMBDA group : Len(group) > 1)

CleanupPlanKeepingLast(images, ids) ==
    LET multi == SortedGroups(images, ids)
    IN  [ primaries          |-> [k \in 1..Len(multi) |-> multi[k][Len(multi[k])]],
          duplicatesToDelete |-> Flatten([k \in 1..Len(multi) |-> Front(multi[k])]) ]

\* cleanup-duplicates route: primaries and duplicatesToDelete for a listing
CleanupPlan(images, ids) ==
    LET multi == SortedGroups(images, ids)
    IN  [ primaries          |-> [k \in 1..Len(multi) |-> Head(multi[k])],
          duplicatesToDelete |-> Flatten([k \in 1..Len(multi) |-> Tail(multi[k])]) ]

\* what deleteImage can do: the store delete throws (Firestore only), the
\* bucket delete throws after the record is gone, or all of it goes through
DeleteOutcomes == IF db THEN {"deleted", "storeError", "cloudError"}
                  ELSE {"deleted", "cloudError"}

CleanupStart(ids) ==
    /\ run.pc = "idle"
    /\ nextJobId < MaxCleanupJobs
    /\ ids # << >>
    /\ \E plan \in { CleanupPlan(inMemoryImages, ids) } :
         /\ plan.duplicatesToDelete # << >>
         /\ LET jobId == nextJobId + 1
            IN  /\ nextJobId' = jobId
                /\ inMemoryJobs' = startJob(AddJob(inMemoryJobs, jobId,
                                       createJob("cleanup", Len(plan.duplicatesToDelete))),
                                       jobId)
                /\ run' = [pc |-> "cleanup", jobId |-> jobId,
                           targetIds |-> plan.duplicatesToDelete, i |-> 0,
                           successCount |-> 0, errorCount |-> 0,
                           primaries |-> plan.primaries, images |-> inMemoryImages]
    /\ UNCHANGED <<disk, blob, inMemoryImages, project, storageConfigured, rc>>
    /\ UNCHANGED serviceVars

\* cleanup-duplicates route: one iteration of the delete loop
CleanupItem(outcome) ==
    /\ run.pc = "cleanup"
    /\ run.i < Len(run.targetIds)
    /\ LET imageId == run.targetIds[run.i + 1]
           img == inMemoryImages[imageId]
           J1 == updateJobProgress(inMemoryJobs, run.jobId,
                     [processedItems |-> run.i,
                      successCount   |-> run.successCount,
                      errorCount     |-> run.errorCount,
                      currentTarget  |-> [name |-> imageId, status |-> "running"]])
       IN  /\ inMemoryImages' = IF outcome = "storeError" THEN inMemoryImages
                                ELSE Remove(inMemoryImages, imageId)
           /\ blob' = IF outcome = "deleted" THEN Remove(blob, img.currentName) ELSE blob
           /\ disk' = IF outcome = "deleted" THEN Remove(disk, img.path) ELSE disk
           /\ IF outcome = "deleted"
              THEN /\ inMemoryJobs' = updateJobProgress(J1, run.jobId,
                          [successCount  |-> run.successCount + 1,
                           currentTarget |-> [name |-> imageId, status |-> "completed"]])
                   /\ run' = [run EXCEPT !.i = @ + 1, !.successCount = @ + 1]
              ELSE /\ inMemoryJobs' = updateJobProgress(J1, run.jobId,
                          [errorCount    |-> run.errorCount + 1,
                           currentTarget |-> [name |-> imageId, status |-> "failed",
                                              error |-> outcome]])
                   /\ run' = [run EXCEPT !.i = @ + 1, !.errorCount = @ + 1]
    /\ UNCHANGED <<nextJobId, project, storageConfigured, rc>>
    /\ UNCHANGED serviceVars

\* updateImage(projectId, primary.id, { isDuplicate: false, duplicateOf: null })
RECURSIVE ClearPrimaries(_, _, _)
ClearPrimaries(images, primaries, k) ==
    IF k > Len(primaries) THEN images
    ELSE ClearPrimaries(IF primaries[k] \in DOMAIN images
                        THEN [images EXCEPT ![primaries[k]].isDuplicate = FALSE,
                                            ![primaries[k]].duplicateOf = << >>]
                        ELSE images, primaries, k + 1)

\* cleanup-duplicates route: after the loop
CleanupFinish ==
    /\ run.pc = "cleanup"
    /\ run.i = Len(run.targetIds)
    /\ inMemoryImages' = ClearPrimaries(inMemoryImages, run.primaries, 1)
    /\ project' = [project EXCEPT !.imageCount = Cardinality(DOMAIN run.images) - run.successCount]
    /\ inMemoryJobs' = completeJob(inMemoryJobs, run.jobId,
                           IF run.errorCount > 0 THEN "failed" ELSE "completed")
    /\ run' = RunIdle
    /\ UNCHANGED <<nextJobId, disk, blob, storageConfigured, rc>>
    /\ UNCHANGED serviceVars

CleanupFolders ==
    UNION { [S -> [hash : Hashes, readable : {TRUE}]] : S \in SUBSET FolderNames \ {{}} }

InitCleanup ==
    /\ InitProjectRecords(CleanupFolders, BOOLEAN)
    /\ db \in BOOLEAN
    /\ firestoreImages = << >>
    /\ firestoreTaxonomies = << >>
    /\ inMemoryTaxonomies = << >>
    /\ calls = << >>
    /\ cleaned = CleanedIdle
    /\ ExtrasIdle

NextCleanup ==
    \/ \E ids \in Perms(DOMAIN inMemoryImages) : CleanupStart(ids)
    \/ \E outcome \in DeleteOutcomes : CleanupItem(outcome)
    \/ CleanupFinish

SpecCleanup == InitCleanup /\ [][NextCleanup]_vars

\* ------------------------------------------------------------------ claims
RenamedIds(images) == { id \in DOMAIN images : images[id].renamed }

\* the batch rename run's job is still recorded and has been cancelled
RunCancelled ==
    /\ run.pc = "loop"
    /\ run.jobId \in DOMAIN inMemoryJobs
    /\ inMemoryJobs[run.jobId].status = "cancelled"

\* the step is an iteration of the rename loop that moved a file
ItemRenamed == RenameItem /\ run'.successCount = run.successCount + 1

\* the step is an iteration of the rename loop that counted an error
ItemFailed == RenameItem /\ run'.errorCount = run.errorCount + 1

CurrentItem == inMemoryImages[run.targetIds[run.i + 1]]
CurrentItemAfter == inMemoryImages'[run.targetIds[run.i + 1]]

\* C1: once a job's status is completed, failed or cancelled it never
\* changes again while the job record exists, also when the job is cancelled
\* during its pipeline run and the run later reaches completeJob.
C1_TerminalStatusIsFinal ==
    [][ \A jobId \in DOMAIN inMemoryJobs \cap DOMAIN inMemoryJobs' :
            inMemoryJobs[jobId].status \in TerminalStatuses
                => inMemoryJobs'[jobId].status = inMemoryJobs[jobId].status ]_vars

\* C2: when a job is cancelled while its rename loop is running, the loop
\* stops before the next item: no item is attempted after the cancellation.
C2_NoItemAttemptedAfterCancel ==
    [][ RunCancelled => ~RenameItem ]_vars

\* C3: once completeJob has been called on a job, a later updateJobProgress
\* call leaves the job's status, completedAt and progress unchanged.
C3_UpdateAfterCompleteChangesNothing ==
    [][ \A jobId \in DOMAIN inMemoryJobs :
            ( /\ inMemoryJobs[jobId].status \in {"completed", "failed"}
              /\ \E update \in Updates : TUpdateJobProgress(jobId, update) )
                => /\ inMemoryJobs'[jobId].status = inMemoryJobs[jobId].status
                   /\ inMemoryJobs'[jobId].completedAt = inMemoryJobs[jobId].completedAt
                   /\ inMemoryJobs'[jobId].progress = inMemoryJobs[jobId].progress ]_vars

\* the store is what a scan of the folder as it is now leaves: one record per
\* file, under the id of the file's hash and name, at the file's own name
PostScan ==
    /\ DOMAIN inMemoryImages = { generateImageId(disk[f].hash, f) : f \in DOMAIN disk }
    /\ \A id \in DOMAIN inMemoryImages :
          LET img == inMemoryImages[id]
          IN  /\ img.path \in DOMAIN disk
              /\ img.originalName = img.path
              /\ img.currentName = img.path
              /\ img.hash = disk[img.path].hash
              /\ id = generateImageId(img.hash, img.originalName)
    /\ project.imageCount = Cardinality(DOMAIN inMemoryImages)

ScanStep ==
    \E files \in Perms(DOMAIN disk), existingList \in Listings(inMemoryImages) :
        Scan(files, existingList)

DuplicatesMarked(images) ==
    \A id \in DOMAIN images :
        LET others == { o \in DOMAIN images \ {id} : images[o].hash = images[id].hash }
        IN  /\ images[id].isDuplicate = (others # {})
            /\ Range(images[id].duplicateOf) = { images[o].originalName : o \in others }
            /\ Len(images[id].duplicateOf) = Cardinality(others)
            /\ images[id].originalName \notin Range(images[id].duplicateOf)

\* C5: after every completed scan, a record's isDuplicate is true iff another
\* record has its content hash, and its duplicateOf is exactly the
\* originalNames of those other records.
C5_DuplicatesMarkedAfterScan ==
    [][ ScanStep => DuplicatesMarked(inMemoryImages') ]_vars

UniquePaths(images) ==
    \A a, b \in DOMAIN images : a # b => images[a].path # images[b].path

\* every record's file is in the folder
Synced(images, folder) == \A id \in DOMAIN images : images[id].path \in DOMAIN folder

\* the moved file took a name that was free, and no other file changed
MovedToFreeName ==
    /\ CurrentItemAfter.path \notin DOMAIN disk
    /\ CurrentItemAfter.currentName = CurrentItemAfter.path
    /\ DOMAIN disk' = (DOMAIN disk \ {CurrentItem.path}) \cup {CurrentItemAfter.path}
    /\ disk'[CurrentItemAfter.path] = disk[CurrentItem.path]
    /\ \A f \in DOMAIN disk \ {CurrentItem.path} : disk'[f] = disk[f]

C7_SmallestUnusedCounter ==
    rc.done =>
        LET Candidate(k) == (IF k = 0 THEN rc.newName ELSE WithCounter(rc.newName, k))
                            \o <<rc.ext>>
        IN  \E k \in 0..Len(CounterStr) :
                /\ rc.finalName \o <<rc.ext>> = Candidate(k)
                /\ Candidate(k) \notin rc.dir
                /\ \A m \in 0..(k - 1) : Candidate(m) \in rc.dir

\* photo.jpg and photo_1.jpg are taken, and base photo resolved to photo_2
C7_Witness ==
    /\ rc.done
    /\ rc.dir = { <<"photo", ".jpg">>, <<"photo", "_", "1", ".jpg">> }
    /\ rc.newName = <<"photo">>
    /\ rc.ext = ".jpg"
    /\ rc.finalName = <<"photo", "_", "2">>

\* C8: when a rename is mirrored into blob storage, no object exists at the
\* destination name before the copy.
C8_BlobDestinationFree ==
    [][ ( /\ ItemRenamed
          /\ run.useStorage
          /\ CurrentItem.storageUrl # NoName
          /\ CurrentItem.currentName \in DOMAIN blob )
            => CurrentItemAfter.currentName \notin DOMAIN blob ]_vars

\* C9: an item counted in errorCount leaves the store as it was, and the loop
\* proceeds to the next item.
C9_FailedItemLeavesStore ==
    [][ ItemFailed =>
            /\ inMemoryImages' = inMemoryImages
            /\ run'.i = run.i + 1
            /\ run'.pc = "loop" ]_vars

\* the first item was renamed, the second failed at fs.rename with its record
\* as the scan left it, and the loop is past both
C9_Witness ==
    /\ run.pc = "loop"
    /\ run.i = 2
    /\ run.successCount = 1
    /\ run.errorCount = 1
    /\ run.jobId \in DOMAIN inMemoryJobs
    /\ \E k \in DOMAIN inMemoryJobs[run.jobId].targets :
          LET t == inMemoryJobs[run.jobId].targets[k]
          IN  /\ t.status = "failed"
              /\ t.name \in DOMAIN inMemoryImages
              /\ ~inMemoryImages[t.name].renamed
              /\ inMemoryImages[t.name].path = inMemoryImages[t.name].originalName

\* C10: whenever no batch rename is in progress, the project's renamedCount
\* equals the number of its records with renamed = true.
C10_RenamedCountMatchesRecords ==
    run.pc = "idle" => project.renamedCount = Cardinality(RenamedIds(inMemoryImages))

\* the step is a save, update, delete or clear issued for projectId
StoreStepOn(projectId) ==
    \/ \E S \in SUBSET StoreFiles : StoreSave(projectId, SeqOf(S))
    \/ \E imageId \in StoreIds : StoreUpdate(projectId, imageId) \/ StoreDelete(projectId, imageId)
    \/ StoreClear(projectId)

\* the records of projectId after the step
ProjectImagesAfter(projectId) ==
    IF db THEN ProjectDocs(firestoreImages', projectId)
    ELSE [ id \in { i \in DOMAIN inMemoryImages' : inMemoryImages'[i].projectId = projectId }
             |-> inMemoryImages'[id] ]

\* C11: a store operation on project P never creates, changes or removes a
\* record of another project Q, and getImage(P, id) never returns a record of
\* Q, under the persistent store and under the in-memory store.
C11_ProjectsIsolated ==
    [][ \A p \in ProjectIds :
          /\ \A imageId \in StoreIds :
                getImage(p, imageId) # NotFound => getImage(p, imageId).projectId = p
          /\ StoreStepOn(p) =>
                \A q \in ProjectIds \ {p} : ProjectImagesAfter(q) = getProjectImages(q) ]_vars

\* a rename or cleanup request leaves its loop and completes its job
BatchFinish == RenameFinish \/ CleanupFinish

\* C12: when the loop of a batch job has run to the end, the job is failed
\* only if every item failed, and it is completed if any item succeeded.
C12_FailedOnlyWhenEveryItemFailed ==
    [][ BatchFinish /\ run.jobId \in DOMAIN inMemoryJobs' =>
          /\ inMemoryJobs'[run.jobId].status = "failed" =>
                 run.errorCount = Len(run.targetIds)
          /\ run.successCount > 0 => inMemoryJobs'[run.jobId].status = "completed" ]_vars

\* the ids of the records with a content hash
WithHash(images, hash) == { id \in DOMAIN images : images[id].hash = hash }

RoundedPercent(processedItems, totalItems) ==
    (200 * processedItems + totalItems) \div (2 * totalItems)

\* C13: every job with totalItems > 0 has progress = round(100 * processedItems
\* / totalItems), also after completeJob; a job with totalItems = 0 has a
\* progress that is an integer in 0..100.
C13_ProgressIsRoundedRatio ==
    \A jobId \in DOMAIN inMemoryJobs :
        LET job == inMemoryJobs[jobId]
        IN  IF job.totalItems > 0
            THEN job.progress = RoundedPercent(job.processedItems, job.totalItems)
            ELSE job.progress \in 0..100

\* C14: every job of a pipeline run has successCount + errorCount <=
\* processedItems, after each progress update and after completeJob.
C14_CountsWithinProcessed ==
    \A jobId \in DOMAIN inMemoryJobs :
        inMemoryJobs[jobId].successCount + inMemoryJobs[jobId].errorCount
            <= inMemoryJobs[jobId].processedItems

\* updateJobProgress is called on a job no completeJob has touched, with a
\* processedItems that does not go down
ProgressReport(jobId) ==
    /\ jobId \in DOMAIN inMemoryJobs
    /\ inMemoryJobs[jobId].completedAt = NULL
    /\ \E update \in Updates :
          /\ "processedItems" \in DOMAIN update
          /\ update.processedItems >= inMemoryJobs[jobId].processedItems
          /\ TUpdateJobProgress(jobId, update)

\* C15: over updateJobProgress calls with increasing processedItems the
\* progress of a job never goes down and is always an integer in 0..100.
C15_ProgressMonotoneInRange ==
    [][ \A jobId \in TrackerJobIds :
           ProgressReport(jobId) =>
              /\ inMemoryJobs'[jobId].progress \in 0..100
              /\ inMemoryJobs'[jobId].progress >= inMemoryJobs[jobId].progress ]_vars

TargetNamesOf(targets) == { targets[k].name : k \in 1..Len(targets) }

\* C16: after any updateJobProgress calls the targets of a job hold at most
\* one entry per name; a call naming a present target changes that entry in
\* place (same position, same startedAt, the call's status) and no other, and
\* a call naming a new target appends exactly one entry.
C16_TargetsKeyedByName ==
    [][ \A jobId \in TrackerJobIds : \A update \in TargetReports :
           TUpdateJobProgress(jobId, update) =>
              LET old == inMemoryJobs[jobId].targets
                  new == inMemoryJobs'[jobId].targets
                  ct  == update.currentTarget
              IN  /\ Cardinality(TargetNamesOf(new)) = Len(new)
                  /\ IF ct.name \in TargetNamesOf(old)
                     THEN /\ Len(new) = Len(old)
                          /\ \A k \in 1..Len(old) :
                                IF old[k].name = ct.name
                                THEN /\ new[k].name = ct.name
                                     /\ new[k].status = ct.status
                                     /\ new[k].startedAt = old[k].startedAt
                                ELSE new[k] = old[k]
                     ELSE /\ Len(new) = Len(old) + 1
                          /\ SubSeq(new, 1, Len(old)) = old
                          /\ new[Len(new)].name = ct.name
                          /\ new[Len(new)].status = ct.status ]_vars

\* two targets have been reported and the first one updated afterwards
C16_Witness ==
    \E jobId \in DOMAIN inMemoryJobs :
        LET targets == inMemoryJobs[jobId].targets
        IN  /\ Len(targets) = 2
            /\ targets[1].name # targets[2].name
            /\ targets[1].completedAt # NULL

\* the first pattern of the list that matches the name, 0 if none does
RECURSIVE FirstMatching(_, _)
FirstMatching(k, name) ==
    IF k > PatternCount THEN 0
    ELSE IF ApplyPattern(k, name) # name THEN k
    ELSE FirstMatching(k + 1, name)

\* the name with the prefix of its first matching pattern removed, sanitized
FirstMatchCleaned(originalName) ==
    LET nameWithoutExt == basename(originalName)
        k == FirstMatching(1, nameWithoutExt)
    IN  IF k = 0 THEN << >>
        ELSE LET cleanName == ApplyPattern(k, nameWithoutExt)
             IN  IF Chars(cleanName) <= 2 THEN << >>
                 ELSE Slice(MapSeq(cleanName, CleanToken), 50)

\* C17: pattern cleaning removes the prefix matched by the first pattern of
\* the list that matches the name without its extension and sanitizes the
\* rest; the result is null when no pattern matches or when at most 2
\* characters are left (imgi_65_sunset.jpg gives sunset).
C17_FirstMatchingPatternApplied ==
    cleaned.done => cleaned.result = FirstMatchCleaned(cleaned.name)

StatusRank(status) ==
    CASE status = "scanned" -> 1 [] status = "analyzed" -> 2 [] status = "renamed" -> 3
      [] OTHER -> 0

\* C19: over scans, analyses and renames the status of a record never goes
\* from renamed back to analyzed or scanned, nor from analyzed back to
\* scanned (it may go to error at any time).
C19_StatusMovesForward ==
    [][ \A imageId \in DOMAIN inMemoryImages \cap DOMAIN inMemoryImages' :
           LET before == inMemoryImages[imageId].status
               after  == inMemoryImages'[imageId].status
           IN  (before # "error" /\ after # "error") =>
                   StatusRank(after) >= StatusRank(before) ]_vars

\* the calls that have returned a taxonomy item
Returned == { c \in DOMAIN calls : calls[c].pc = "done" /\ calls[c].result # NoItem }

\* C20: the taxonomy registry holds at most one entry per (type, name), and
\* all getOrCreateTaxonomy calls for one type and name return the same id,
\* however the calls interleave.
C20_OneTaxonomyPerTypeAndName ==
    /\ \A k, m \in 1..Len(firestoreTaxonomies) :
          ( /\ firestoreTaxonomies[k].type = firestoreTaxonomies[m].type
            /\ firestoreTaxonomies[k].name = firestoreTaxonomies[m].name ) => k = m
    /\ \A c, d \in Returned :
          (calls[c].type = calls[d].type /\ calls[c].name = calls[d].name)
              => calls[c].result = calls[d].result

\* a call of startJob, updateJobProgress or completeJob
TrackerCall(jobId) ==
    \/ CallStartJob(jobId)
    \/ \E update \in Updates : CallUpdateJobProgress(jobId, update)
    \/ \E status \in {"completed", "failed"} : CallCompleteJob(jobId, status)

\* C21: startJob, updateJobProgress and completeJob called with a job id the
\* tracker does not hold return null and leave every job record as it was.
C21_UnknownJobIsNoOp ==
    [][ \A jobId \in CalledJobIds :
           (jobId \notin DOMAIN inMemoryJobs /\ TrackerCall(jobId)) =>
               /\ returned'.value = << >>
               /\ inMemoryJobs' = inMemoryJobs ]_vars

\* completeJob has been called with an unknown id while a job was running
C21_Witness ==
    /\ returned.op = "completeJob"
    /\ returned.jobId \notin DOMAIN inMemoryJobs
    /\ \E jobId \in DOMAIN inMemoryJobs : inMemoryJobs[jobId].status = "running"

\* the call found the old object and has not returned success yet, or it
\* has just returned
StorageRenameUnderWay ==
    storageRename.pc # "idle" /\ storageRename.existed

\* C22: a blob rename removes the old object only when the new object holds
\* its content; at every step of a call that found the old object, and after
\* a failure at any step, the old or the new object exists, and after a failed
\* copy the old object is still there.
C22_OldDeletedOnlyAfterCopy ==
    /\ [](StorageRenameUnderWay =>
            /\ \/ storageRename.oldFilename \in DOMAIN blob
               \/ storageRename.newFilename \in DOMAIN blob
            /\ storageRename.threw = "copy" => storageRename.oldFilename \in DOMAIN blob)
    /\ [][ \A name \in DOMAIN blob \ DOMAIN blob' :
              /\ storageRename.newFilename \in DOMAIN blob
              /\ blob[storageRename.newFilename] = blob[name] ]_vars

\* a call has run to its end: the old object is gone and the new one is there
C22_Witness ==
    /\ storageRename.pc = "done"
    /\ storageRename.existed
    /\ storageRename.success
    /\ storageRename.oldFilename \notin DOMAIN blob
    /\ storageRename.newFilename \in DOMAIN blob

Unreadable == { name \in DOMAIN disk : ~disk[name].readable }

FailedTargets(job) ==
    { job.targets[k].name : k \in { m \in 1..Len(job.targets) :
                                       job.targets[m].status = "failed" } }

C24_SkippedItemsReportedFailed ==
    [][ (RenameFinish /\ run.jobId \in DOMAIN inMemoryJobs') =>
          LET job == inMemoryJobs'[run.jobId]
          IN  /\ job.errorCount = run.errorCount
              /\ Len(job.errors) = run.errorCount
              /\ Cardinality(FailedTargets(job)) + job.successCount
                    = Cardinality(Range(run.targetIds))
              /\ \A k \in 1..Len(job.targets) :
                    /\ job.targets[k].status # "running"
                    /\ job.targets[k].status = "failed" => job.targets[k].error # NULL ]_vars

\* C25: when a duplicate cleanup finishes, a retained primary whose
\* isDuplicate flag has been cleared shares its hash with no other record
\* left in the project, also when some deletes failed.
C25_ClearedPrimaryHasNoSibling ==
    [][ CleanupFinish =>
          \A id \in Range(run.primaries) \cap DOMAIN inMemoryImages' :
             ( /\ ~inMemoryImages'[id].isDuplicate
               /\ inMemoryImages'[id].duplicateOf = << >> )
                => WithHash(inMemoryImages', inMemoryImages'[id].hash) = {id} ]_vars

\* ------------------------- a batch rename watched by polling job readers
\* Object.assign of the written fields onto the stored document
UpdateDoc(doc, data) == [f \in DOMAIN doc |-> IF f \in DOMAIN data THEN data[f] ELSE doc[f]]

\* updateJobProgress: the `partial` it sends to jobs/{jobId}
ProgressPartial(job) ==
    [ progress |-> job.progress, processedItems |-> job.processedItems,
      successCount |-> job.successCount, errorCount |-> job.errorCount,
      targets |-> job.targets, errors |-> job.errors ]

\* completeJob: the `update` it sends to jobs/{jobId}
CompletePartial(job) ==
    [ status |-> job.status, completedAt |-> job.completedAt, progress |-> job.progress,
      successCount |-> job.successCount, errorCount |-> job.errorCount,
      targets |-> job.targets, errors |-> job.errors ]

\* `await db.collection('jobs').doc(job.id).update(data)` is sent
PendingWrite(jobId, data) == [inflight EXCEPT !.write = <<[jobId |-> jobId, data |-> data]>>]

\* the variables neither the watched run nor a reader touches
ObservedFrame ==
    UNCHANGED <<storageConfigured, rc, db, firestoreImages, firestoreTaxonomies,
                inMemoryTaxonomies, calls, cleaned, returned, storageRename,
                singleRename>>

\* rename-batch route up to the loop, every id naming a record with a
\* candidate name; createJob and startJob have written the job's document
ObservedStart(targetIds, useAiSuggestion, usePatternClean) ==
    /\ run.pc = "idle"
    /\ nextJobId < MaxRenameJobs
    /\ targetIds # << >>
    /\ \A k \in 1..Len(targetIds) :
          /\ targetIds[k] \in DOMAIN inMemoryImages
          /\ CandidateName(inMemoryImages[targetIds[k]], useAiSuggestion,
                           usePatternClean) # NoName
    /\ LET jobId == nextJobId + 1
           J == startJob(AddJob(inMemoryJobs, jobId,
                                createJob("rename", Len(targetIds))), jobId)
       IN  /\ nextJobId' = jobId
           /\ inMemoryJobs' = J
           /\ firestoreJobs' = Put(firestoreJobs, jobId, J[jobId])
           /\ run' = [pc |-> "report", jobId |-> jobId, targetIds |-> targetIds, i |-> 0,
                      successCount |-> 0, errorCount |-> 0,
                      useAiSuggestion |-> useAiSuggestion,
                      usePatternClean |-> usePatternClean,
                      useStorage |-> storageConfigured]
    /\ UNCHANGED <<disk, blob, inMemoryImages, project, inflight>>
    /\ ObservedFrame

\* rename-batch route: the report at the top of an iteration, up to its await
ObservedReport ==
    /\ run.pc = "report"
    /\ run.i < Len(run.targetIds)
    /\ inflight.write = << >>
    /\ \E J \in { updateJobProgress(inMemoryJobs, run.jobId,
                     [processedItems |-> run.i,
                      successCount   |-> run.successCount,
                      errorCount     |-> run.errorCount,
                      currentTarget  |-> [name |-> run.targetIds[run.i + 1],
                                          status |-> "running"]]) } :
          /\ inMemoryJobs' = J
          /\ inflight' = PendingWrite(run.jobId, ProgressPartial(J[run.jobId]))
    /\ run' = [run EXCEPT !.pc = "item"]
    /\ UNCHANGED <<nextJobId, disk, blob, inMemoryImages, project, firestoreJobs>>
    /\ ObservedFrame

\* the awaited update reaches Firestore and the await resolves
ObservedWriteLands ==
    /\ inflight.write # << >>
    /\ LET w == inflight.write[1]
       IN  firestoreJobs' = [firestoreJobs EXCEPT ![w.jobId] = UpdateDoc(@, w.data)]
    /\ inflight' = [inflight EXCEPT !.write = << >>]
    /\ UNCHANGED <<inMemoryJobs, nextJobId, disk, blob, inMemoryImages, project, run>>
    /\ ObservedFrame

\* the awaited update throws; the tracker's catch logs it and goes on
ObservedWriteFails ==
    /\ inflight.write # << >>
    /\ inflight' = [inflight EXCEPT !.write = << >>]
    /\ UNCHANGED <<inMemoryJobs, nextJobId, disk, blob, inMemoryImages, project, run,
                   firestoreJobs>>
    /\ ObservedFrame

\* rename-batch route: the rest of the iteration, up to the await of its
\* closing report
ObservedItem ==
    /\ run.pc = "item"
    /\ inflight.write = << >>
    /\ LET imageId == run.targetIds[run.i + 1]
           newName == CandidateName(inMemoryImages[imageId], run.useAiSuggestion,
                                    run.usePatternClean)
       IN  \E plan \in { RenamePlan(inMemoryImages[imageId], newName, run.useStorage) } :
             \E J \in { IF plan.ok
                        THEN updateJobProgress(inMemoryJobs, run.jobId,
                                [successCount  |-> run.successCount + 1,
                                 currentTarget |-> [name |-> imageId,
                                                    status |-> "completed"]])
                        ELSE updateJobProgress(inMemoryJobs, run.jobId,
                                [errorCount    |-> run.errorCount + 1,
                                 currentTarget |-> [name |-> imageId, status |-> "failed",
                                                    error |-> "ENOENT"]]) } :
                /\ disk' = IF plan.ok THEN plan.disk ELSE disk
                /\ blob' = IF plan.ok THEN plan.blob ELSE blob
                /\ inMemoryImages' = RenamedStore(inMemoryImages, imageId, plan)
                /\ inMemoryJobs' = J
                /\ inflight' = PendingWrite(run.jobId, ProgressPartial(J[run.jobId]))
                /\ run' = IF plan.ok
                          THEN [run EXCEPT !.pc = "report", !.i = @ + 1,
                                           !.successCount = @ + 1]
                          ELSE [run EXCEPT !.pc = "report", !.i = @ + 1,
                                           !.errorCount = @ + 1]
    /\ UNCHANGED <<nextJobId, project, firestoreJobs>>
    /\ ObservedFrame

\* rename-batch route: after the loop, up to the await inside completeJob
ObservedFinish ==
    /\ run.pc = "report"
    /\ run.i = Len(run.targetIds)
    /\ inflight.write = << >>
    /\ project' = IF run.successCount > 0
                  THEN updateProjectStatsRenamed(project, run.successCount)
                  ELSE project
    /\ \E J \in { completeJob(inMemoryJobs, run.jobId,
                           IF run.errorCount = Len(run.targetIds) THEN "failed"
                           ELSE "completed") } :
          /\ inMemoryJobs' = J
          /\ inflight' = PendingWrite(run.jobId, CompletePartial(J[run.jobId]))
    /\ run' = RunIdle
    /\ UNCHANGED <<nextJobId, disk, blob, inMemoryImages, firestoreJobs>>
    /\ ObservedFrame

\* getJob with a database: `await db.collection('jobs').doc(jobId).get()`
\* is answered from the document as it is now
GetJobRead(jobId) ==
    /\ inflight.read = << >>
    /\ jobId \in DOMAIN firestoreJobs
    /\ inflight' = [inflight EXCEPT !.read = <<[jobId |-> jobId,
                                                job |-> firestoreJobs[jobId]]>>]
    /\ UNCHANGED <<inMemoryJobs, nextJobId, disk, blob, inMemoryImages, project, run,
                   firestoreJobs>>
    /\ ObservedFrame

\* getJob with a database: the answer arrives, `inMemoryJobs.set(job.id, job)`
GetJobReturn ==
    /\ inflight.read # << >>
    /\ LET r == inflight.read[1]
       IN  /\ inMemoryJobs' = Put(inMemoryJobs, r.jobId, r.job)
           /\ returned' = [op |-> "getJob", jobId |-> r.jobId, value |-> <<r.job>>]
    /\ inflight' = [inflight EXCEPT !.read = << >>]
    /\ UNCHANGED <<nextJobId, disk, blob, inMemoryImages, project, run, firestoreJobs,
                   storageConfigured, rc, db, firestoreImages, firestoreTaxonomies,
                   inMemoryTaxonomies, calls, cleaned, storageRename, singleRename>>

InitObserved ==
    /\ InitProjectRecords(Folders([hash : {OneHash}, readable : {TRUE}]), {FALSE})
    /\ ExtrasIdle
    /\ db = TRUE
    /\ firestoreImages = << >>
    /\ firestoreTaxonomies = << >>
    /\ inMemoryTaxonomies = << >>
    /\ calls = << >>
    /\ cleaned = CleanedIdle

NextObserved ==
    \/ \E name \in DOMAIN disk :
          /\ run.pc = "idle"
          /\ nextJobId = 0
          /\ RemoveFile(name)
    \/ \E imageIds \in IdLists(MaxItems), flags \in RenameFlags :
          ObservedStart(imageIds, flags[1], flags[2])
    \/ ObservedReport
    \/ ObservedItem
    \/ ObservedFinish
    \/ ObservedWriteLands
    \/ ObservedWriteFails
    \/ \E jobId \in DOMAIN firestoreJobs : GetJobRead(jobId)
    \/ GetJobReturn

SpecObserved == InitObserved /\ [][NextObserved]_vars

\* C26: when a watched run ends with polling readers at work, the job's
\* targets hold a final status for every processed item and its successCount
\* and errorCount are the numbers of items the run succeeded and failed on.
C26_ReadersLoseNoProgress ==
    [][ ObservedFinish =>
          LET job == inMemoryJobs'[run.jobId]
          IN  /\ job.successCount = run.successCount
              /\ job.errorCount = run.errorCount
              /\ \A k \in 1..Len(run.targetIds) :
                    \E t \in Range(job.targets) :
                       /\ t.name = run.targetIds[k]
                       /\ t.status \in {"completed", "failed"} ]_vars

\* --------------------------- a single rename interleaved with a batch rename
\* images/[imageId]/rename route up to the end of the `while (true)` probe:
\* the record it read and the free name it found
SingleRenameProbe(imageId, newName) ==
    /\ singleRename.pc = "idle"
    /\ imageId \in DOMAIN inMemoryImages
    /\ LET imageData == inMemoryImages[imageId]
       IN  singleRename' =
             [ pc          |-> "probed",
               imageId     |-> imageId,
               imageData   |-> imageData,
               useStorage  |-> storageConfigured,
               newFullName |-> ResolveCollision(DOMAIN disk, sanitizeFileName(newName),
                                                imageData.extension)
                               \o <<imageData.extension>> ]
    /\ UNCHANGED <<inMemoryJobs, nextJobId, disk, blob, inMemoryImages, project, run,
                   storageConfigured, rc, db, firestoreImages, firestoreTaxonomies,
                   inMemoryTaxonomies, calls, cleaned, returned, storageRename,
                   firestoreJobs, inflight>>

\* images/[imageId]/rename route from `await fs.rename(oldPath, newPath)` on;
\* a missing oldPath throws into the catch block
SingleRenameMove ==
    /\ singleRename.pc = "probed"
    /\ LET imageData == singleRename.imageData
           imageId == singleRename.imageId
           newFullName == singleRename.newFullName
           mirrored == singleRename.useStorage /\ imageData.storageUrl # NoName
           moved == mirrored /\ imageData.currentName \in DOMAIN blob
       IN  IF imageData.path \notin DOMAIN disk
           THEN UNCHANGED <<disk, blob, inMemoryImages, project>>
           ELSE /\ disk' = Put(Remove(disk, imageData.path), newFullName,
                               disk[imageData.path])
                /\ blob' = IF mirrored
                           THEN renameImageInStorage(blob, imageData.currentName,
                                                     newFullName)
                           ELSE blob
                /\ inMemoryImages' =
                      [inMemoryImages EXCEPT
                         ![imageId] = [@ EXCEPT
                            !.currentName = newFullName,
                            !.path = newFullName,
                            !.renamed = TRUE,
                            !.renamedAt = Now,
                            !.status = "renamed",
                            !.storageUrl = IF moved THEN newFullName
                                           ELSE imageData.storageUrl,
                            !.metadata = imageData.metadata]]
                /\ project' = IF ~imageData.renamed
                              THEN updateProjectStatsRenamed(project, 1)
                              ELSE project
    /\ singleRename' = SingleRenameIdle
    /\ UNCHANGED <<inMemoryJobs, nextJobId, run, storageConfigured, rc, db,
                   firestoreImages, firestoreTaxonomies, inMemoryTaxonomies, calls,
                   cleaned, returned, storageRename, firestoreJobs, inflight>>

InitInterleaved == InitProject(Folders([hash : {OneHash}, readable : {TRUE}]), {FALSE})

NextInterleaved ==
    \/ \E imageIds \in IdLists(MaxItems), flags \in RenameFlags :
          RenameBatchStart(imageIds, flags[1], flags[2])
    \/ RenameItem
    \/ RenameFinish
    \/ \E imageId \in DOMAIN inMemoryImages, newName \in NewNames :
          SingleRenameProbe(imageId, newName)
    \/ SingleRenameMove

SpecInterleaved == InitInterleaved /\ [][NextInterleaved]_vars

\* C27: when a single rename interleaves with a batch rename, its fs.rename
\* never goes to a name that exists in the folder at that moment, and the
\* folder holds as many files after it as before.
C27_RenameNeverOverwrites ==
    [][ SingleRenameMove =>
          /\ Cardinality(DOMAIN disk') = Cardinality(DOMAIN disk)
          /\ singleRename.imageData.path \in DOMAIN disk
                => singleRename.newFullName \notin DOMAIN disk ]_vars

\* ------------------------------------------------ every run comes to an end
\* each step of the run is taken once it can be, every request that was sent
\* is answered or fails, and nothing is assumed about when observers poll
FairObserved ==
    /\ WF_vars(ObservedReport)
    /\ WF_vars(ObservedItem)
    /\ WF_vars(ObservedFinish)
    /\ WF_vars(ObservedWriteLands \/ ObservedWriteFails)
    /\ WF_vars(GetJobReturn)

SpecObservedFair == SpecObserved /\ FairObserved

\* the job is gone, or its in-memory copy or its document is terminal
Settled(jobId) ==
    \/ jobId \notin DOMAIN inMemoryJobs
    \/ inMemoryJobs[jobId].status \in TerminalStatuses
    \/ /\ jobId \in DOMAIN firestoreJobs
       /\ firestoreJobs[jobId].status \in TerminalStatuses

\* C28: every job a run has created is, from some moment on, either removed
\* or terminal (completed, failed or cancelled), given that every step and
\* every external call of the run eventually returns or throws.
C28_EveryJobEndsTerminal ==
    \A jobId \in 1..MaxRenameJobs : <>[]Settled(jobId)

\* ------------------------------ scanning names that differ in one character
SpacedNames == { <<"sun", " ", "1", ".jpg">>, <<"sun", "_", "1", ".jpg">>,
                 <<"cat", ".jpg">> }

SpacedFolders ==
    UNION { [S -> [hash : Hashes, readable : {TRUE}]] :
            S \in { T \in SUBSET SpacedNames : Cardinality(T) \in 1..MaxFiles } }

InitScanNames == InitProject(SpacedFolders, {FALSE})

NextScanNames ==
    \/ \E name \in SpacedNames, hash \in Hashes : AddFile(name, hash, TRUE)
    \/ \E name \in DOMAIN disk : RemoveFile(name)
    \/ ScanStep

SpecScanNames == InitScanNames /\ [][NextScanNames]_vars

\* C29: after a completed scan in which no file raised an error the store
\* holds one record per scanned file and the reported imageCount is the
\* number of stored records, also for files of identical content whose names
\* differ only in a character outside [a-zA-Z0-9._-].
C29_OneRecordPerScannedFile ==
    [][ (ScanStep /\ inMemoryJobs'[nextJobId'].status = "completed"
                  /\ inMemoryJobs'[nextJobId'].errorCount = 0) =>
          /\ Cardinality(DOMAIN inMemoryImages') = Cardinality(DOMAIN disk)
          /\ project'.imageCount = Cardinality(DOMAIN inMemoryImages') ]_vars

\* C30: when the analysis of an item fails, its record changes only in
\* status, metadata.analysisError, metadata.analysisModel and
\* metadata.lastModified: suggestedName, every other field and the metadata
\* stored earlier are as before.
C30_FailedAnalysisKeepsRecord ==
    [][ \A imageId \in DOMAIN inMemoryImages :
          Analyze(<<imageId>>, <<AnalyzerFailure>>) =>
             LET before == inMemoryImages[imageId]
                 after  == inMemoryImages'[imageId]
             IN  /\ \A f \in DOMAIN before \ {"status", "metadata"} :
                       after[f] = before[f]
                 /\ \A g \in DOMAIN before.metadata \ {"analysisError"} :
                       after.metadata[g] = before.metadata[g] ]_vars

====
